---- MODULE Spec2Model ----
(***************************************************************************)
(* A model of the cursor-templates command line tool: the template store,  *)
(* the validator, the quality scorer and its report, the rating            *)
(* aggregator, the materializer (init / update), discovery (search, list,  *)
(* categories) and the registry with its GitHub import.                    *)
(*                                                                         *)
(* A JSON object is a TLA+ record whose DOMAIN is the set of keys that are *)
(* present; an absent key is a key outside the DOMAIN.  Strings are TLA+   *)
(* strings, handled with Len, SubSeq and \o as the code handles them with  *)
(* length, substring tests and concatenation.                              *)
(***************************************************************************)
EXTENDS Integers, Sequences, FiniteSets, TLC

VARIABLES
  store,      \* the templates directory: one entry per subdirectory, in readdir order
  loaded,     \* what the last getTemplates / getAllTemplates call returned
  report,     \* what the last validate-all run reported
  found,      \* what the last search / list / categories command returned
  registry,   \* the registry document (registry.json, held as this.registry)
  tpl,        \* the subdirectory whose descriptor is being analysed
  metrics,    \* what the last analyzeTemplate call returned
  verdict,    \* what the last validateTemplate call returned
  validated,  \* what the last validate <template> command reported
  ratings,    \* the persisted ratings document (community/ratings.json)
  submitted,  \* per template, the (argument, comment) of every addRating call, in order
  rateOut,    \* what the last rate command printed
  fs,         \* the file system: absolute path -> directory or file node
  written,    \* the mutations of fs the last init/update made, in order
  projOut,    \* what the last init/update did and reported
  clock       \* the wall clock, read by new Date()

storeVars == <<store, loaded, report, found, registry>>

qualityVars == <<tpl, metrics, verdict, validated>>

ratingVars == <<ratings, submitted, rateOut>>

projectVars == <<fs, written, projOut>>

vars == <<storeVars, qualityVars, ratingVars, projectVars, clock>>

(***************************************************************************)
(* Strings                                                                 *)
(***************************************************************************)
UpperChars == "ABCDEFGHIJKLMNOPQRSTUVWXYZ"
LowerChars == "abcdefghijklmnopqrstuvwxyz"
DigitChars == "0123456789"

CharAt(s, i) == SubSeq(s, i, i)

\* 0 when c does not occur in alphabet
IndexIn(c, alphabet) ==
  IF \E i \in 1..Len(alphabet) : CharAt(alphabet, i) = c
  THEN CHOOSE i \in 1..Len(alphabet) : CharAt(alphabet, i) = c
  ELSE 0

IsDigit(c) == IndexIn(c, DigitChars) > 0

IsLowerChar(c) == IndexIn(c, LowerChars) > 0

LowerChar(c) ==
  IF IndexIn(c, UpperChars) > 0 THEN CharAt(LowerChars, IndexIn(c, UpperChars)) ELSE c

RECURSIVE ToLowerCase(_)
ToLowerCase(s) ==
  IF s = "" THEN "" ELSE LowerChar(CharAt(s, 1)) \o ToLowerCase(SubSeq(s, 2, Len(s)))

\* String.prototype.includes
Includes(s, sub) ==
  \E i \in 0..(Len(s) - Len(sub)) : SubSeq(s, i + 1, i + Len(sub)) = sub

(***************************************************************************)
(* JSON objects                                                            *)
(***************************************************************************)
NoFields == [k \in {} |-> ""]

Has(obj, key) == key \in DOMAIN obj

\* !obj[key] for a key holding a string: undefined and "" are falsy
StrTruthy(obj, key) == Has(obj, key) /\ obj[key] # ""

(***************************************************************************)
(* The template store                                                      *)
(*                                                                         *)
(* A subdirectory is [dir] (no template.json), [dir, corrupt] (a           *)
(* template.json that does not parse) or [dir, json] (a parsed descriptor).*)
(***************************************************************************)
HasDescriptor(entry) == Has(entry, "corrupt") \/ Has(entry, "json")

Parses(entry) == Has(entry, "json")

DescriptorPath(entry) == "templates/" \o entry.dir \o "/template.json"

\* the loop body without its try/catch: an unparseable descriptor ends the
\* whole load
LoadDirNoCatch(acc, entry) ==
  IF acc.failed \/ ~HasDescriptor(entry) THEN acc
  ELSE IF Parses(entry)
       THEN [acc EXCEPT !.templates = Append(@, entry.json)]
       ELSE [acc EXCEPT !.failed = TRUE]

\* the body of getTemplates' loop for one subdirectory
LoadDir(acc, entry) ==
  IF ~HasDescriptor(entry) THEN acc
  ELSE IF Parses(entry)
       THEN [acc EXCEPT !.templates = Append(@, entry.json)]
       ELSE [acc EXCEPT !.warnings = Append(@, entry.dir)]

RECURSIVE LoadFrom(_, _, _)
LoadFrom(acc, dirs, i) ==
  IF i > Len(dirs) THEN acc ELSE LoadFrom(LoadDir(acc, dirs[i]), dirs, i + 1)

getTemplates(dirs) ==
  LoadFrom([failed |-> FALSE, templates |-> <<>>, warnings |-> <<>>], dirs, 1)

\* TemplateDiscovery.getAllTemplates: the same loop, each template spread
\* into an object that also carries its path and directory
LoadDirAll(acc, entry) ==
  IF ~HasDescriptor(entry) THEN acc
  ELSE IF Parses(entry)
       THEN [acc EXCEPT !.templates =
               Append(@, [path |-> DescriptorPath(entry), directory |-> entry.dir]
                            @@ entry.json)]
       ELSE [acc EXCEPT !.warnings = Append(@, entry.dir)]

RECURSIVE LoadAllFrom(_, _, _)
LoadAllFrom(acc, dirs, i) ==
  IF i > Len(dirs) THEN acc ELSE LoadAllFrom(LoadDirAll(acc, dirs[i]), dirs, i + 1)

getAllTemplates(dirs) ==
  LoadAllFrom([failed |-> FALSE, templates |-> <<>>, warnings |-> <<>>], dirs, 1)

(***************************************************************************)
(* The validator (validateTemplate) and validate-all (testAllTemplates)    *)
(***************************************************************************)
RECURSIVE DigitRun(_, _)
\* the length of the run of digits of s that starts at position i
DigitRun(s, i) ==
  IF i <= Len(s) /\ IsDigit(CharAt(s, i)) THEN 1 + DigitRun(s, i + 1) ELSE 0

IsDotAt(s, i) == i <= Len(s) /\ CharAt(s, i) = "."

\* /^\d+\.\d+\.\d+$/.test(s)
SemverTriple(s) ==
  LET a == DigitRun(s, 1)
      b == DigitRun(s, a + 2)
      c == DigitRun(s, a + b + 3)
  IN  /\ a > 0 /\ IsDotAt(s, a + 1)
      /\ b > 0 /\ IsDotAt(s, a + b + 2)
      /\ c > 0 /\ a + b + c + 2 = Len(s)

\* JSON.stringify of a files entry
FileJson(file) ==
  "{" \o (IF Has(file, "path") THEN "\"path\":\"" \o file.path \o "\"" ELSE "")
      \o (IF Has(file, "path") /\ Has(file, "content") THEN "," ELSE "")
      \o (IF Has(file, "content") THEN "\"content\":\"" \o file.content \o "\"" ELSE "")
      \o "}"

RequiredFields == <<"name", "description", "version", "rules">>

\* !template[field]: a string field is falsy when absent or empty, rules
\* (an object) only when absent
FieldMissing(template, field) ==
  IF field = "rules" THEN ~Has(template, field) ELSE ~StrTruthy(template, field)

MissingFieldErrors(template) ==
  LET missing == SelectSeq(RequiredFields, LAMBDA f : FieldMissing(template, f))
  IN  [i \in 1..Len(missing) |-> "Missing required field: " \o missing[i]]

VersionErrors(template) ==
  IF StrTruthy(template, "version") /\ ~SemverTriple(template.version)
  THEN <<"Invalid version format. Use semantic versioning (x.y.z)">>
  ELSE <<>>

RulesWarnings(template) ==
  IF ~Has(template, "rules") THEN <<>>
  ELSE (IF ~StrTruthy(template.rules, "context") THEN <<"Missing rules.context">> ELSE <<>>)
    \o (IF ~Has(template.rules, "style") THEN <<"Missing rules.style">> ELSE <<>>)
    \o (IF ~Has(template.rules, "restrictions") THEN <<"Missing rules.restrictions">> ELSE <<>>)
    \o (IF ~Has(template.rules, "preferences") THEN <<"Missing rules.preferences">> ELSE <<>>)

TagsWarnings(template) ==
  IF ~Has(template, "tags") \/ Len(template.tags) = 0
  THEN <<"No tags specified">> ELSE <<>>

MinCursorRulesLength == 100

\* one iteration of the loop over template.files; file.content.length throws
\* a TypeError when the .cursorrules entry has no content
CheckFile(acc, file) ==
  LET bad == ~StrTruthy(file, "path") \/ ~StrTruthy(file, "content")
      errs == IF bad THEN Append(acc.errors, "Invalid file entry: " \o FileJson(file))
                     ELSE acc.errors
      isRules == Has(file, "path") /\ file.path = ".cursorrules"
  IN  IF acc.threw THEN acc
      ELSE IF isRules /\ ~Has(file, "content")
           THEN [acc EXCEPT !.errors = errs, !.threw = TRUE]
      ELSE IF isRules /\ Len(file.content) < MinCursorRulesLength
           THEN [acc EXCEPT !.errors = errs,
                            !.warnings = Append(@, ".cursorrules file seems too short")]
      ELSE [acc EXCEPT !.errors = errs]

RECURSIVE CheckFiles(_, _, _)
CheckFiles(acc, files, i) ==
  IF i > Len(files) THEN acc ELSE CheckFiles(CheckFile(acc, files[i]), files, i + 1)

FilesCheck(template, acc) ==
  IF Has(template, "files")
  THEN CheckFiles(acc, template.files, 1)
  ELSE [acc EXCEPT !.warnings = Append(@, "No files specified")]

CommandsWarnings(template) ==
  IF ~Has(template, "commands") THEN <<"No commands specified">>
  ELSE (IF ~StrTruthy(template.commands, "install")
        THEN <<"No install command specified">> ELSE <<>>)
    \o (IF ~StrTruthy(template.commands, "dev")
        THEN <<"No dev command specified">> ELSE <<>>)

ParseFailure ==
  [errors |-> <<"Failed to parse template">>, warnings |-> <<>>, parsed |-> FALSE]

\* validateTemplate on a descriptor that exists: entry is the subdirectory
validateTemplate(entry) ==
  IF ~Parses(entry) THEN ParseFailure
  ELSE
    LET template == entry.json
        start == [errors   |-> MissingFieldErrors(template) \o VersionErrors(template),
                  warnings |-> RulesWarnings(template) \o TagsWarnings(template),
                  threw    |-> FALSE]
        afterFiles == FilesCheck(template, start)
    IN  IF afterFiles.threw THEN ParseFailure
        ELSE [errors   |-> afterFiles.errors,
              warnings |-> afterFiles.warnings \o CommandsWarnings(template),
              parsed   |-> TRUE]

\* the loop body with the two tests exchanged: warnings are looked at
\* before errors
CountDirWarningsFirst(acc, entry) ==
  IF ~HasDescriptor(entry) THEN acc
  ELSE LET result == validateTemplate(entry)
           seen == [acc EXCEPT !.total = @ + 1,
                               !.results = Append(@, [name |-> entry.dir] @@ result)]
       IN  IF Len(result.warnings) = 0
           THEN [seen EXCEPT !.valid = @ + 1]
           ELSE IF Len(result.errors) = 0
                THEN [seen EXCEPT !.warnings = @ + 1]
                ELSE seen

\* one iteration of testAllTemplates' loop; acc counts what the code counts
CountDir(acc, entry) ==
  IF ~HasDescriptor(entry) THEN acc
  ELSE LET result == validateTemplate(entry)
           seen == [acc EXCEPT !.total = @ + 1,
                               !.results = Append(@, [name |-> entry.dir] @@ result)]
       IN  IF Len(result.errors) = 0
           THEN IF Len(result.warnings) = 0
                THEN [seen EXCEPT !.valid = @ + 1]
                ELSE [seen EXCEPT !.warnings = @ + 1]
           ELSE seen

RECURSIVE CountFrom(_, _, _)
CountFrom(acc, dirs, i) ==
  IF i > Len(dirs) THEN acc ELSE CountFrom(CountDir(acc, dirs[i]), dirs, i + 1)

\* testAllTemplates: the summary it prints and writes, and its exit status
testAllTemplates(dirs) ==
  LET c == CountFrom([total |-> 0, valid |-> 0, warnings |-> 0, results |-> <<>>], dirs, 1)
      invalid == c.total - c.valid - c.warnings
  IN  [ran |-> TRUE, total |-> c.total, valid |-> c.valid, warnings |-> c.warnings,
       invalid |-> invalid, results |-> c.results,
       exit |-> IF invalid > 0 THEN 1 ELSE 0]

(***************************************************************************)
(* The quality scorer (QualityMetrics)                                     *)
(*                                                                         *)
(* Each analyze* operator returns the analysis object the method returns,  *)
(* with threw = TRUE when the method throws instead (a TypeError on a      *)
(* property of undefined).                                                 *)
(***************************************************************************)
RECURSIVE JoinFrom(_, _, _)
JoinFrom(seq, sep, i) ==
  IF i > Len(seq) THEN ""
  ELSE (IF i > 1 THEN sep ELSE "") \o seq[i] \o JoinFrom(seq, sep, i + 1)

\* Array.prototype.join
Join(seq, sep) == JoinFrom(seq, sep, 1)

NewAnalysis(max) ==
  [score |-> 0, maxScore |-> max, issues |-> <<>>, recommendations |-> <<>>, threw |-> FALSE]

AddScore(a, n) == [a EXCEPT !.score = @ + n]

AddIssue(a, text) == [a EXCEPT !.issues = Append(@, text)]

AddRec(a, text) == [a EXCEPT !.recommendations = Append(@, text)]

Max(a, b) == IF a >= b THEN a ELSE b

QualityRequiredFields == <<"name", "description", "version", "rules", "files">>

\* !template[field] over the scorer's field list: files (an array) and rules
\* (an object) are falsy only when absent
QualityFieldMissing(template, field) ==
  IF field \in {"rules", "files"} THEN ~Has(template, field) ELSE ~StrTruthy(template, field)

IsCursorRules(file) == Has(file, "path") /\ file.path = ".cursorrules"

HasCursorRules(files) == \E i \in 1..Len(files) : IsCursorRules(files[i])

CompletenessFields(template, a) ==
  LET missing == SelectSeq(QualityRequiredFields, LAMBDA f : QualityFieldMissing(template, f))
  IN  IF Len(missing) = 0 THEN AddScore(a, 15)
      ELSE AddIssue(AddScore(a, Max(0, 15 - Len(missing) * 3)),
                    "Missing required fields: " \o Join(missing, ", "))

CompletenessFiles(template, a) ==
  IF Has(template, "files") /\ Len(template.files) > 0
  THEN IF HasCursorRules(template.files) THEN AddScore(a, 10)
       ELSE AddIssue(AddScore(a, 5), "Missing .cursorrules file")
  ELSE AddIssue(a, "No template files defined")

\* a variant that recommends both commands to a descriptor without commands
CompletenessCommandsRecommending(template, a) ==
  LET commands == IF Has(template, "commands") THEN template.commands ELSE NoFields
      hasInstall == StrTruthy(commands, "install")
      hasDev == StrTruthy(commands, "dev")
      scored == IF hasInstall /\ hasDev THEN AddScore(a, 5)
                ELSE IF hasInstall \/ hasDev THEN AddScore(a, 3)
                ELSE a
      r1 == IF ~hasInstall THEN AddRec(scored, "Add install command") ELSE scored
  IN  IF ~hasDev THEN AddRec(r1, "Add dev command") ELSE r1

CompletenessCommands(template, a) ==
  IF ~Has(template, "commands") THEN AddIssue(a, "No commands defined")
  ELSE LET hasInstall == StrTruthy(template.commands, "install")
           hasDev == StrTruthy(template.commands, "dev")
           scored == IF hasInstall /\ hasDev THEN AddScore(a, 5)
                     ELSE IF hasInstall \/ hasDev THEN AddScore(a, 3)
                     ELSE a
           r1 == IF ~hasInstall THEN AddRec(scored, "Add install command") ELSE scored
       IN  IF ~hasDev THEN AddRec(r1, "Add dev command") ELSE r1

analyzeCompleteness(template) ==
  CompletenessCommands(template,
    CompletenessFiles(template, CompletenessFields(template, NewAnalysis(30))))

DocumentationDescription(template, a) ==
  IF ~StrTruthy(template, "description") THEN AddIssue(a, "Missing description")
  ELSE IF Len(template.description) > 50 THEN AddScore(a, 10)
  ELSE IF Len(template.description) > 20 THEN AddScore(a, 7)
  ELSE AddRec(AddScore(a, 4), "Expand template description")

\* template.files?.find(f => f.path === '.cursorrules'): the first such entry
FirstCursorRules(files) ==
  files[CHOOSE i \in 1..Len(files) :
          IsCursorRules(files[i]) /\ \A j \in 1..(i - 1) : ~IsCursorRules(files[j])]

\* the code-fence delimiter (three grave accents in the source; a TLA+ string
\* cannot hold that character, so the model writes the fence with apostrophes)
CodeFence == "'''"

DocumentationSections(content, a) ==
  LET hasContext == Includes(content, "context") \/ Includes(content, "You are")
      hasExamples == Includes(content, CodeFence) \/ Includes(content, "Example")
      hasBestPractices == Includes(content, "Best Practices") \/ Includes(content, "## ")
      r1 == IF ~hasContext THEN AddRec(a, "Add context section to .cursorrules") ELSE a
      r2 == IF ~hasExamples THEN AddRec(r1, "Add code examples to .cursorrules") ELSE r1
  IN  IF ~hasBestPractices THEN AddRec(r2, "Add best practices section to .cursorrules")
      ELSE r2

DocumentationCursorRules(template, a) ==
  IF ~(Has(template, "files") /\ HasCursorRules(template.files)) THEN a
  ELSE LET file == FirstCursorRules(template.files)
       IN  IF ~Has(file, "content") THEN [a EXCEPT !.threw = TRUE]
           ELSE LET content == file.content
                    banded == IF Len(content) > 500 THEN AddScore(a, 15)
                              ELSE IF Len(content) > 200
                              THEN AddRec(AddScore(a, 10), "Expand .cursorrules with more guidance")
                              ELSE AddIssue(AddScore(a, 5), ".cursorrules content is too brief")
                IN  DocumentationSections(content, banded)

analyzeDocumentation(template) ==
  DocumentationCursorRules(template, DocumentationDescription(template, NewAnalysis(25)))

BestPracticesVersion(template, a) ==
  IF StrTruthy(template, "version") /\ SemverTriple(template.version)
  THEN AddScore(a, 5)
  ELSE AddIssue(a, "Invalid or missing semantic version")

BestPracticesTags(template, a) ==
  IF Has(template, "tags") /\ Len(template.tags) > 0
  THEN IF Len(template.tags) < 3
       THEN AddRec(AddScore(a, 5), "Add more descriptive tags")
       ELSE AddScore(a, 5)
  ELSE AddIssue(a, "No tags specified")

NonEmptyList(obj, key) == Has(obj, key) /\ Len(obj[key]) > 0

BestPracticesRules(template, a) ==
  IF ~Has(template, "rules") THEN AddIssue(a, "Missing rules object")
  ELSE LET rules == template.rules
           c == IF StrTruthy(rules, "context") THEN AddScore(a, 4)
                ELSE AddIssue(a, "Missing rules context")
           s == IF Has(rules, "style") THEN AddScore(c, 4)
                ELSE AddIssue(c, "Missing rules style")
           r == IF NonEmptyList(rules, "restrictions") THEN AddScore(s, 3)
                ELSE AddRec(s, "Add restrictions to rules")
       IN  IF NonEmptyList(rules, "preferences") THEN AddScore(r, 4)
           ELSE AddRec(r, "Add preferences to rules")

analyzeBestPractices(template) ==
  BestPracticesRules(template,
    BestPracticesTags(template, BestPracticesVersion(template, NewAnalysis(25))))

\* /^[a-z0-9-]+$/ matches s
KebabCase(s) ==
  /\ Len(s) > 0
  /\ \A i \in 1..Len(s) :
       IsLowerChar(CharAt(s, i)) \/ IsDigit(CharAt(s, i)) \/ CharAt(s, i) = "-"

Frameworks ==
  <<"react", "vue", "angular", "svelte", "nextjs", "nuxt", "flutter", "django", "express">>

TagIncludes(tags, word) ==
  \E i \in 1..Len(tags) : Includes(ToLowerCase(tags[i]), word)

RECURSIVE FrameworkScan(_, _)
\* frameworks.some(fw => tags.some(...) || name.toLowerCase().includes(fw)),
\* from framework number i on: "yes", "no", or "throw" when template.name is
\* undefined at the moment it is read
FrameworkScan(template, i) ==
  IF i > Len(Frameworks) THEN "no"
  ELSE IF TagIncludes(template.tags, Frameworks[i]) THEN "yes"
  ELSE IF ~Has(template, "name") THEN "throw"
  ELSE IF Includes(ToLowerCase(template.name), Frameworks[i]) THEN "yes"
  ELSE FrameworkScan(template, i + 1)

UsabilityName(template, a) ==
  IF ~StrTruthy(template, "name") THEN a
  ELSE IF KebabCase(template.name) THEN AddScore(a, 5)
  ELSE AddRec(AddScore(a, 3), "Use kebab-case for template name")

UsabilityAuthor(template, a) ==
  IF StrTruthy(template, "author") THEN AddScore(a, 5)
  ELSE AddRec(a, "Add author information")

UsabilityFramework(template, a) ==
  IF ~(Has(template, "tags") /\ Has(template, "rules")) THEN a
  ELSE LET scanned == FrameworkScan(template, 1)
       IN  IF scanned = "throw" THEN [a EXCEPT !.threw = TRUE]
           ELSE IF scanned = "yes" THEN AddScore(a, 10)
           ELSE AddRec(AddScore(a, 5), "Specify target framework in tags")

analyzeUsability(template) ==
  UsabilityFramework(template,
    UsabilityAuthor(template, UsabilityName(template, NewAnalysis(20))))

\* a variant whose A band opens one point late
calculateGradeLateA(score) ==
  IF score >= 90 THEN "A+"
  ELSE IF score >= 86 THEN "A"
  ELSE IF score >= 80 THEN "A-"
  ELSE IF score >= 75 THEN "B+"
  ELSE IF score >= 70 THEN "B"
  ELSE IF score >= 65 THEN "B-"
  ELSE IF score >= 60 THEN "C+"
  ELSE IF score >= 55 THEN "C"
  ELSE IF score >= 50 THEN "C-"
  ELSE IF score >= 40 THEN "D"
  ELSE "F"

calculateGrade(score) ==
  IF score >= 90 THEN "A+"
  ELSE IF score >= 85 THEN "A"
  ELSE IF score >= 80 THEN "A-"
  ELSE IF score >= 75 THEN "B+"
  ELSE IF score >= 70 THEN "B"
  ELSE IF score >= 65 THEN "B-"
  ELSE IF score >= 60 THEN "C+"
  ELSE IF score >= 55 THEN "C"
  ELSE IF score >= 50 THEN "C-"
  ELSE IF score >= 40 THEN "D"
  ELSE "F"

\* the object a method returns: the analysis without the model's threw flag
Returned(a) == [k \in DOMAIN a \ {"threw"} |-> a[k]]

\* the total without the fourth +=
TotalScoreNoUsability(c, d, b, u) == c.score + d.score + b.score

\* metrics.score after the four += of analyzeTemplate
TotalScore(c, d, b, u) == c.score + d.score + b.score + u.score

ErrorMetrics(name) == [name |-> name, score |-> 0, grade |-> "F", error |-> "error.message"]

\* analyzeTemplate on a descriptor that exists: entry is the subdirectory
analyzeTemplate(entry) ==
  IF ~Parses(entry) THEN ErrorMetrics(entry.dir)
  ELSE
    LET template == entry.json
        c == analyzeCompleteness(template)
        d == analyzeDocumentation(template)
        b == analyzeBestPractices(template)
        u == analyzeUsability(template)
        score == TotalScore(c, d, b, u)
    IN  IF c.threw \/ d.threw \/ b.threw \/ u.threw THEN ErrorMetrics(entry.dir)
        ELSE [name |-> entry.dir,
              score |-> score,
              issues |-> c.issues \o d.issues \o b.issues \o u.issues,
              recommendations |-> c.recommendations \o d.recommendations
                                    \o b.recommendations \o u.recommendations,
              analysis |-> [completeness |-> Returned(c), documentation |-> Returned(d),
                            bestPractices |-> Returned(b), usability |-> Returned(u)],
              grade |-> calculateGrade(score)]

(***************************************************************************)
(* The rating aggregator (the rate command and addRating)                  *)
(*                                                                         *)
(* A rating (a number with one decimal) is held in tenths: 4.0 is 40.      *)
(* Math.round(x * 10) / 10 is computed exactly; for ratings 1..5 and up to *)
(* six votes the double-precision result is the same number.               *)
(***************************************************************************)
RECURSIVE DigitsValue(_)
\* the number a string of digits denotes
DigitsValue(s) ==
  IF s = "" THEN 0
  ELSE DigitsValue(SubSeq(s, 1, Len(s) - 1)) * 10 + (IndexIn(CharAt(s, Len(s)), DigitChars) - 1)

\* parseInt(s): an optional sign, then the longest run of digits; NaN when
\* there is no digit
parseInt(s) ==
  LET signed == Len(s) > 0 /\ CharAt(s, 1) \in {"-", "+"}
      from == IF signed THEN 2 ELSE 1
      n == DigitRun(s, from)
      magnitude == DigitsValue(SubSeq(s, from, from + n - 1))
  IN  IF n = 0 THEN [nan |-> TRUE, val |-> 0]
      ELSE [nan |-> FALSE,
            val |-> IF signed /\ CharAt(s, 1) = "-" THEN 0 - magnitude ELSE magnitude]

\* what JSON.stringify writes for NaN, read back: null
JsonNull == -1

\* null * votes is 0
NumberOf(x) == IF x = JsonNull THEN 0 ELSE x

\* Math.round(total / votes * 10) with total in tenths: half rounds up
RoundTenths(total, votes) == (2 * total + votes) \div (2 * votes)

NewRecord == [rating |-> 0, votes |-> 0, reviews |-> <<>>]

\* ratings.templates[templateName] after addRating's update, as persisted
AddToRecord(record, num, comment, now) ==
  LET newTotal == NumberOf(record.rating) * record.votes + 10 * num.val
      votes == record.votes + 1
      rating == IF num.nan THEN JsonNull ELSE RoundTenths(newTotal, votes)
      review == [user |-> "anonymous",
                 rating |-> IF num.nan THEN JsonNull ELSE num.val,
                 comment |-> comment, date |-> now]
  IN  [rating |-> rating, votes |-> votes,
       reviews |-> IF comment # "" THEN Append(record.reviews, review) ELSE record.reviews]

\* addRating: the whole document, read, modified and written back; comment
\* is "" when the option was not given
addRating(doc, templateName, num, comment, now) ==
  LET record == IF Has(doc.templates, templateName) THEN doc.templates[templateName]
                ELSE NewRecord
  IN  [doc EXCEPT !.templates =
         (templateName :> AddToRecord(record, num, comment, now)) @@ doc.templates]

\* ratingNum < 1 || ratingNum > 5: false for NaN
OutOfRange(num) == ~num.nan /\ (num.val < 1 \/ num.val > 5)

\* templates.find(t => t.name === templateName) finds one
Resolves(templates, templateName) ==
  \E i \in 1..Len(templates) : Has(templates[i], "name") /\ templates[i].name = templateName

(***************************************************************************)
(* Paths and the file system                                               *)
(*                                                                         *)
(* Every path the commands use is absolute after path.resolve.  An         *)
(* absolute path is held as path.normalize leaves it, as the sequence of   *)
(* its segments: /work/src/a.txt is <<"work", "src", "a.txt">>, and the    *)
(* root is <<>>.                                                           *)
(***************************************************************************)
Cwd == <<"work">>

Dir == [kind |-> "dir"]

RECURSIVE Segments(_, _, _)
\* s.split("/") from character i on, the current segment starting at from
Segments(s, i, from) ==
  IF i > Len(s) THEN <<SubSeq(s, from, Len(s))>>
  ELSE IF CharAt(s, i) = "/"
  THEN <<SubSeq(s, from, i - 1)>> \o Segments(s, i + 1, i + 1)
  ELSE Segments(s, i + 1, from)

RECURSIVE NormalizeSegments(_, _)
\* path.normalize below the absolute path stack: "" and "." are dropped,
\* ".." removes the segment before it (and nothing at the root)
NormalizeSegments(segs, stack) ==
  IF segs = <<>> THEN stack
  ELSE LET seg == Head(segs)
       IN  IF seg \in {"", "."} THEN NormalizeSegments(Tail(segs), stack)
           ELSE IF seg = ".."
           THEN NormalizeSegments(Tail(segs),
                  IF stack = <<>> THEN stack ELSE SubSeq(stack, 1, Len(stack) - 1))
           ELSE NormalizeSegments(Tail(segs), Append(stack, seg))

IsAbsolute(p) == Len(p) > 0 /\ CharAt(p, 1) = "/"

\* path.join(a, b) for an absolute path a and a string b
pathJoin(a, b) == NormalizeSegments(Segments(b, 1, 1), a)

\* path.resolve(p) for a string p
pathResolve(p) ==
  NormalizeSegments(Segments(p, 1, 1), IF IsAbsolute(p) THEN <<>> ELSE Cwd)

pathDirname(p) == IF p = <<>> THEN p ELSE SubSeq(p, 1, Len(p) - 1)

\* q lies inside the directory p
IsUnder(q, p) == Len(q) > Len(p) /\ SubSeq(q, 1, Len(p)) = p

FileNode(content) == [kind |-> "file", content |-> content]

JsonNode(doc) == [kind |-> "json", doc |-> doc]

pathExists(files, p) == p \in DOMAIN files

RECURSIVE ensureDir(_, _)
\* fs.ensureDir: the directory and every missing ancestor are created
ensureDir(files, d) ==
  IF d \in DOMAIN files THEN files
  ELSE (d :> Dir) @@ (IF d = <<>> THEN files ELSE ensureDir(files, pathDirname(d)))

(***************************************************************************)
(* The materializer: init's file loop and marker                           *)
(***************************************************************************)
MarkerName == ".cursor-template.json"

NoFail == [at |-> 0, op |-> "none"]

\* a key of the object literal is written by writeJson when its value is
\* defined
Field(key, obj, from) == IF Has(obj, from) THEN (key :> obj[from]) ELSE NoFields

RECURSIVE WriteFilesFrom(_, _, _, _, _)
\* for (const file of selectedTemplate.files) from entry i on; state is
\* [fs, written, ok]; the loop ends at the first call that throws
WriteFilesFrom(state, projectPath, files, i, fail) ==
  IF i > Len(files) THEN state
  ELSE IF ~Has(files[i], "path") \/ fail = [at |-> i, op |-> "ensureDir"]
  THEN [state EXCEPT !.ok = FALSE]
  ELSE LET filePath == pathJoin(projectPath, files[i].path)
           made == ensureDir(state.fs, pathDirname(filePath))
       IN  IF ~Has(files[i], "content") \/ fail = [at |-> i, op |-> "writeFile"]
           THEN [state EXCEPT !.fs = made, !.ok = FALSE]
           ELSE WriteFilesFrom(
                  [fs |-> (filePath :> FileNode(files[i].content)) @@ made,
                   written |-> Append(state.written,
                                 [op |-> "writeFile", path |-> filePath, entry |-> i]),
                   ok |-> TRUE],
                  projectPath, files, i + 1, fail)

\* the files a template declares
DeclaredFiles(selected) == IF Has(selected, "files") THEN selected.files ELSE <<>>

\* if (selectedTemplate.files) { for ... }
WriteFiles(state, projectPath, selected, fail) ==
  IF Has(selected, "files") THEN WriteFilesFrom(state, projectPath, selected.files, 1, fail)
  ELSE state

\* the marker is reached even after a failed file write
MarkerReachedAlways(state) == TRUE

\* the marker is reached when no earlier statement of the block threw
MarkerReached(state) == state.ok

\* fs.writeJson(metadataPath, doc)
WriteMarker(state, projectPath, doc, fail) ==
  IF ~MarkerReached(state) THEN state
  ELSE IF fail.op = "writeJson" THEN [state EXCEPT !.ok = FALSE]
  ELSE LET metadataPath == pathJoin(projectPath, MarkerName)
       IN  [fs |-> (metadataPath :> JsonNode(doc)) @@ state.fs,
            written |-> Append(state.written, [op |-> "writeJson", path |-> metadataPath]),
            ok |-> TRUE]

\* the marker of the init command that asks for a project name
NamedMarker(selected, now, projectName) ==
  Field("template", selected, "name") @@ Field("version", selected, "version")
    @@ [installedAt |-> now, projectName |-> projectName]

\* the marker of the init command that takes --path
PathMarker(selected, now) ==
  Field("template", selected, "name") @@ Field("version", selected, "version")
    @@ [installedAt |-> now]

(***************************************************************************)
(* Versions: semver.gt and isNewer                                         *)
(*                                                                         *)
(* A version is parsed as semver's strict grammar does for versions        *)
(* without a prerelease or build tag: an optional v and three numeric      *)
(* identifiers, none with a leading zero.                                  *)
(***************************************************************************)
\* a numeric identifier of n digits starts at position i of s
NumericIdentifier(s, i, n) == n > 0 /\ (n = 1 \/ CharAt(s, i) # "0")

\* new SemVer(s): valid is FALSE where the constructor throws
SemVer(s) ==
  LET from == IF Len(s) > 0 /\ CharAt(s, 1) = "v" THEN 2 ELSE 1
      a == DigitRun(s, from)
      b == DigitRun(s, from + a + 1)
      c == DigitRun(s, from + a + b + 2)
  IN  IF /\ NumericIdentifier(s, from, a) /\ IsDotAt(s, from + a)
         /\ NumericIdentifier(s, from + a + 1, b) /\ IsDotAt(s, from + a + b + 1)
         /\ NumericIdentifier(s, from + a + b + 2, c) /\ from + a + b + c + 1 = Len(s)
      THEN [valid |-> TRUE,
            major |-> DigitsValue(SubSeq(s, from, from + a - 1)),
            minor |-> DigitsValue(SubSeq(s, from + a + 1, from + a + b)),
            patch |-> DigitsValue(SubSeq(s, from + a + b + 2, from + a + b + c + 1))]
      ELSE [valid |-> FALSE, major |-> 0, minor |-> 0, patch |-> 0]

\* major, then minor, then patch, as numbers
Precedes(x, y) ==
  \/ x.major < y.major
  \/ x.major = y.major /\ x.minor < y.minor
  \/ x.major = y.major /\ x.minor = y.minor /\ x.patch < y.patch

\* obj.version, which may be undefined
VersionOf(obj) ==
  IF Has(obj, "version") THEN [defined |-> TRUE, text |-> obj.version]
  ELSE [defined |-> FALSE, text |-> ""]

\* semver.gt throws for an undefined or invalid version
GtThrows(newVersion, currentVersion) ==
  \/ ~newVersion.defined \/ ~currentVersion.defined
  \/ ~SemVer(newVersion.text).valid \/ ~SemVer(currentVersion.text).valid

isNewer(newVersion, currentVersion) ==
  IF GtThrows(newVersion, currentVersion) THEN newVersion # currentVersion
  ELSE Precedes(SemVer(currentVersion.text), SemVer(newVersion.text))

(***************************************************************************)
(* Analytics.trackCommand                                                  *)
(***************************************************************************)
InstallRoot == <<"opt", "cursor-templates">>

analyticsPath == InstallRoot \o <<"analytics", "usage.json">>

NewUsage(now) ==
  [totalCommands |-> 0, templatesCreated |-> 0, popularTemplates |-> NoFields,
   commandUsage |-> NoFields, errorCounts |-> NoFields, firstUsed |-> now, lastUsed |-> now]

getUsageData(files, now) ==
  IF pathExists(files, analyticsPath) THEN files[analyticsPath].doc ELSE NewUsage(now)

\* counts[key]++, from 0 when the key is new
Increment(counts, key) == (key :> ((IF Has(counts, key) THEN counts[key] ELSE 0) + 1)) @@ counts

\* trackCommand(command, templateName, success) for a command other than
\* init; state is [fs, written, ok]
trackCommand(state, command, success, now) ==
  LET data == getUsageData(state.fs, now)
      counted == [data EXCEPT !.totalCommands = @ + 1, !.lastUsed = now,
                              !.commandUsage = Increment(@, command),
                              !.errorCounts = IF success THEN @ ELSE Increment(@, command)]
  IN  [state EXCEPT
         !.fs = (analyticsPath :> JsonNode(counted)) @@ ensureDir(@, pathDirname(analyticsPath)),
         !.written = Append(@, [op |-> "writeJson", path |-> analyticsPath])]

(***************************************************************************)
(* update: backups, files and marker                                       *)
(***************************************************************************)
RECURSIVE NumberText(_)
\* `${n}` for a natural number
NumberText(n) ==
  IF n < 10 THEN CharAt(DigitChars, n + 1)
  ELSE NumberText(n \div 10) \o CharAt(DigitChars, (n % 10) + 1)

\* `${filePath}.backup.${Date.now()}`
BackupPath(filePath, now) ==
  pathDirname(filePath) \o <<filePath[Len(filePath)] \o ".backup." \o NumberText(now)>>

RECURSIVE UpdateFilesFrom(_, _, _, _, _)
\* for (const file of currentTemplate.files) from entry i on; the loop ends
\* at the first call that throws
UpdateFilesFrom(state, files, i, fail, now) ==
  IF i > Len(files) THEN state
  ELSE IF ~Has(files[i], "path") THEN [state EXCEPT !.ok = FALSE]
  ELSE LET filePath == pathResolve(files[i].path)
           exists == pathExists(state.fs, filePath)
           backupPath == BackupPath(filePath, now)
           backedUp ==
             IF exists
             THEN [state EXCEPT !.fs = (backupPath :> @[filePath]) @@ @,
                                !.written = Append(@, [op |-> "copy", path |-> backupPath,
                                                       entry |-> i])]
             ELSE state
           made == [backedUp EXCEPT !.fs = ensureDir(@, pathDirname(filePath))]
       IN  IF exists /\ fail = [at |-> i, op |-> "copy"] THEN [state EXCEPT !.ok = FALSE]
           ELSE IF fail = [at |-> i, op |-> "ensureDir"] THEN [backedUp EXCEPT !.ok = FALSE]
           ELSE IF ~Has(files[i], "content") \/ fail = [at |-> i, op |-> "writeFile"]
           THEN [made EXCEPT !.ok = FALSE]
           ELSE UpdateFilesFrom(
                  [made EXCEPT !.fs = (filePath :> FileNode(files[i].content)) @@ @,
                               !.written = Append(@, [op |-> "writeFile", path |-> filePath,
                                                      entry |-> i])],
                  files, i + 1, fail, now)

UpdateFiles(state, currentTemplate, fail, now) ==
  IF Has(currentTemplate, "files")
  THEN UpdateFilesFrom(state, currentTemplate.files, 1, fail, now)
  ELSE state

\* metadata.version = currentTemplate.version; metadata.updatedAt = now, as
\* writeJson writes it: a key whose value is undefined is left out
UpdatedMetadata(metadata, currentTemplate, now) ==
  Field("version", currentTemplate, "version") @@ [updatedAt |-> now]
    @@ [k \in DOMAIN metadata \ {"version"} |-> metadata[k]]

\* the marker write without the guard of the file loop (a variant)
UpdateMarkerAlways(state, metadataPath, doc, fail) ==
  [state EXCEPT !.fs = (metadataPath :> JsonNode(doc)) @@ @,
                !.written = Append(@, [op |-> "writeJson", path |-> metadataPath])]

UpdateMarker(state, metadataPath, doc, fail) ==
  IF ~state.ok THEN state
  ELSE IF fail.op = "writeJson" THEN [state EXCEPT !.ok = FALSE]
  ELSE [state EXCEPT !.fs = (metadataPath :> JsonNode(doc)) @@ @,
                     !.written = Append(@, [op |-> "writeJson", path |-> metadataPath])]

(***************************************************************************)
(* Store contents                                                          *)
(***************************************************************************)
RECURSIVE Repeat(_, _)
Repeat(s, n) ==
  IF n = 0 THEN ""
  ELSE IF n % 2 = 0 THEN LET half == Repeat(s, n \div 2) IN half \o half
  ELSE s \o Repeat(s, n - 1)

FullRules ==
  [context |-> "You are a frontend expert", style |-> [language |-> "typescript"],
   restrictions |-> <<"no any">>, preferences |-> <<"hooks">>]

\* valid, no warnings
ReactTpl ==
  [name |-> "react-typescript-vite", description |-> "React with TypeScript and Vite",
   version |-> "1.1.0", author |-> "sangam", tags |-> <<"react", "typescript", "vite">>,
   rules |-> FullRules,
   files |-> <<[path |-> ".cursorrules", content |-> "You are " \o Repeat("x", 100)],
               [path |-> "src/a.txt", content |-> "Y"]>>,
   commands |-> [install |-> "npm install", dev |-> "npm run dev"]]

\* valid, with warnings (short .cursorrules, no dev command, no preferences)
VueTpl ==
  [name |-> "vue3-typescript-vite", description |-> "Vue 3 with TypeScript and Vite",
   version |-> "1.0.0", tags |-> <<"vue", "typescript", "vite">>,
   rules |-> [context |-> "You are a Vue expert", style |-> NoFields,
              restrictions |-> <<>>],
   files |-> <<[path |-> ".cursorrules", content |-> "X"]>>,
   commands |-> [install |-> "npm install"]]

\* invalid: no description, a two-part version, a files entry without content
BrokenTpl ==
  [name |-> "Broken", version |-> "1.0", rules |-> NoFields,
   files |-> <<[path |-> "README.md"]>>]

\* a .cursorrules entry without content
NoContentTpl ==
  [name |-> "django-rest-api", description |-> "Django REST API", version |-> "2.0.0",
   tags |-> <<"django", "python">>, rules |-> FullRules,
   files |-> <<[path |-> ".cursorrules"]>>,
   commands |-> [install |-> "pip install -r requirements.txt", dev |-> "python manage.py runserver"]]

StoreTemplates == {ReactTpl, VueTpl, BrokenTpl, NoContentTpl}

MaxDirs == 3

DirName(i) == "d" \o CharAt(DigitChars, i + 1)

\* what subdirectory number i may hold
DirChoices(i) ==
  {[dir |-> DirName(i)], [dir |-> DirName(i), corrupt |-> TRUE]}
    \cup {[dir |-> DirName(i), json |-> t] : t \in StoreTemplates}

Stores ==
  UNION {{s \in [1..n -> UNION {DirChoices(i) : i \in 1..n}] :
            \A i \in 1..n : s[i] \in DirChoices(i)} : n \in 0..MaxDirs}

NotLoaded == [op |-> "none", failed |-> FALSE, templates |-> <<>>, warnings |-> <<>>]

NotSearched == [op |-> "none"]

\* this.registry before loadRegistry
NoRegistry == [loaded |-> FALSE]

NoReport ==
  [ran |-> FALSE, total |-> 0, valid |-> 0, warnings |-> 0, invalid |-> 0,
   results |-> <<>>, exit |-> 0]

(***************************************************************************)
(* The store commands                                                      *)
(***************************************************************************)
NoMetrics == [name |-> "", score |-> 0, grade |-> ""]

NotValidated == [ran |-> FALSE]

IdleQuality ==
  /\ tpl = [dir |-> "none"]
  /\ metrics = NoMetrics
  /\ verdict = NotValidated
  /\ validated = NotValidated

NoRatings == [templates |-> NoFields, featured |-> <<>>, trending |-> <<>>]

IdleRating ==
  ratings = NoRatings /\ submitted = NoFields /\ rateOut = ""

EmptyFs == (<<>> :> Dir) @@ (Cwd :> Dir)

NoOutcome == [command |-> "none"]

IdleProject == fs = EmptyFs /\ written = <<>> /\ projOut = NoOutcome /\ clock = 0

InitStore ==
  /\ store \in Stores
  /\ loaded = NotLoaded
  /\ report = NoReport
  /\ found = NotSearched
  /\ registry = NoRegistry
  /\ IdleQuality
  /\ IdleRating
  /\ IdleProject

GetTemplates ==
  /\ loaded' = [op |-> "getTemplates"] @@ getTemplates(store)
  /\ UNCHANGED <<store, report, found, registry, qualityVars, ratingVars, projectVars, clock>>

GetAllTemplates ==
  /\ loaded' = [op |-> "getAllTemplates"] @@ getAllTemplates(store)
  /\ UNCHANGED <<store, report, found, registry, qualityVars, ratingVars, projectVars, clock>>

ValidateAll ==
  /\ report' = testAllTemplates(store)
  /\ UNCHANGED <<store, loaded, found, registry, qualityVars, ratingVars, projectVars, clock>>

NextStore == GetTemplates \/ GetAllTemplates \/ ValidateAll

SpecStore == InitStore /\ [][NextStore]_vars

(***************************************************************************)
(* Claims about the store                                                  *)
(***************************************************************************)
ParsedDirs == SelectSeq(store, Parses)

CorruptDirs == SelectSeq(store, LAMBDA e : HasDescriptor(e) /\ ~Parses(e))

WithoutLocation(t) == [k \in DOMAIN t \ {"path", "directory"} |-> t[k]]

\* C1: loading the store never fails and returns, in directory-listing
\* order, exactly the templates of the subdirectories whose descriptor
\* exists and parses; every descriptor that does not parse is skipped with
\* one warning naming its directory.
C1_LoadSkipsCorrupt ==
  loaded.op # "none" =>
    /\ ~loaded.failed
    /\ Len(loaded.templates) = Len(ParsedDirs)
    /\ \A i \in 1..Len(ParsedDirs) :
         WithoutLocation(loaded.templates[i]) = ParsedDirs[i].json
    /\ loaded.warnings = [i \in 1..Len(CorruptDirs) |-> CorruptDirs[i].dir]
    /\ loaded.op = "getAllTemplates" =>
         \A i \in 1..Len(ParsedDirs) : loaded.templates[i].directory = ParsedDirs[i].dir

\* a load over a store whose corrupt descriptor precedes a good one
C1_Witness ==
  /\ loaded.op = "getTemplates"
  /\ \E i, j \in 1..Len(store) :
       i < j /\ Has(store[i], "corrupt") /\ Parses(store[j])
  /\ Len(loaded.templates) >= 1
  /\ Len(loaded.warnings) >= 1

ErrorCount(entry) == Len(validateTemplate(entry).errors)

WarningCount(entry) == Len(validateTemplate(entry).warnings)

Described == {i \in 1..Len(store) : HasDescriptor(store[i])}

NameParts == {NoFields, [name |-> "react-app"], [name |-> "MyTool"]}

DescriptionParts ==
  {NoFields, [description |-> Repeat("d", 20)], [description |-> Repeat("d", 51)]}

VersionParts == {NoFields, [version |-> "1.0.0"], [version |-> "1.0"]}

AuthorParts == {NoFields, [author |-> "sangam"]}

TagsParts == {NoFields, [tags |-> <<"tool">>], [tags |-> <<"Vue", "typescript", "vite">>]}

RulesObjects ==
  {NoFields,
   [context |-> "You are an expert"],
   [style |-> NoFields, restrictions |-> <<"no any">>, preferences |-> <<"hooks">>],
   [context |-> "", style |-> [language |-> ""], restrictions |-> <<>>, preferences |-> <<>>],
   FullRules}

RulesParts == {NoFields} \cup {[rules |-> r] : r \in RulesObjects}

BriefRules == "You are " \o Repeat("x", 192)

LongRules == "## Best Practices " \o CodeFence \o " Example " \o Repeat("x", 480)

FilesParts ==
  {NoFields,
   [files |-> <<>>],
   [files |-> <<[path |-> "README.md", content |-> "readme"]>>],
   [files |-> <<[path |-> ".cursorrules", content |-> BriefRules]>>],
   [files |-> <<[path |-> "README.md", content |-> "readme"],
                [path |-> ".cursorrules", content |-> LongRules]>>],
   [files |-> <<[path |-> ".cursorrules"]>>]}

CommandsParts ==
  {NoFields,
   [commands |-> NoFields],
   [commands |-> [install |-> "npm install"]],
   [commands |-> [dev |-> "npm run dev"]],
   [commands |-> [install |-> "npm install", dev |-> "npm run dev"]]}

Descriptors ==
  {n @@ d @@ v @@ a @@ t @@ r @@ f @@ c :
     n \in NameParts, d \in DescriptionParts, v \in VersionParts, a \in AuthorParts,
     t \in TagsParts, r \in RulesParts, f \in FilesParts, c \in CommandsParts}

InitQuality ==
  /\ tpl \in {[dir |-> "d1", corrupt |-> TRUE]} \cup {[dir |-> "d1", json |-> t] : t \in Descriptors}
  /\ metrics = NoMetrics
  /\ verdict = NotValidated
  /\ validated = NotValidated
  /\ store = <<>>
  /\ loaded = NotLoaded
  /\ report = NoReport
  /\ found = NotSearched
  /\ registry = NoRegistry
  /\ IdleRating
  /\ IdleProject

\* metrics.analyzeTemplate(templatePath) on one template directory
AnalyzeTemplate ==
  /\ metrics' = analyzeTemplate(tpl)
  /\ UNCHANGED <<tpl, verdict, validated, storeVars, ratingVars, projectVars, clock>>

NextQuality == AnalyzeTemplate

SpecQuality == InitQuality /\ [][NextQuality]_vars

(***************************************************************************)
(* Claims about the scorer                                                 *)
(***************************************************************************)
Analysed == metrics.grade # ""

\* the dimension scores a result carries (none when the analysis failed)
Dimensions == IF Has(metrics, "analysis") THEN metrics.analysis ELSE NoFields

DimensionMax ==
  [completeness |-> 30, documentation |-> 25, bestPractices |-> 25, usability |-> 20]

RECURSIVE SumOf(_, _)
SumOf(f, keys) ==
  IF keys = {} THEN 0
  ELSE LET k == CHOOSE x \in keys : TRUE IN f[k].score + SumOf(f, keys \ {k})

C16_ScorerToleratesMissingFields ==
  (Analysed /\ Parses(tpl)) =>
    /\ ~Has(metrics, "error")
    /\ Has(metrics, "issues") /\ Has(metrics, "recommendations")
    /\ DOMAIN Dimensions = DOMAIN DimensionMax
    /\ metrics.score = SumOf(Dimensions, DOMAIN Dimensions)

(***************************************************************************)
(* The rate command                                                        *)
(***************************************************************************)
MaxRatings == 4

RatingArgs == {"0", "1", "2", "2.5", "5", "6", "abc"}

RateNames == {"react-typescript-vite", "no-such-template"}

Comments == {"", "works well"}

RatedStore == <<[dir |-> "d1", json |-> ReactTpl], [dir |-> "d2", corrupt |-> TRUE]>>

InitRating ==
  /\ store = RatedStore
  /\ loaded = NotLoaded
  /\ report = NoReport
  /\ found = NotSearched
  /\ registry = NoRegistry
  /\ IdleQuality
  /\ IdleRating
  /\ IdleProject

Submissions(name) == IF Has(submitted, name) THEN submitted[name] ELSE <<>>

\* rate <template> <rating> [--comment <comment>]
Rate(templateName, arg, comment) ==
  LET ratingNum == parseInt(arg)
  IN  IF OutOfRange(ratingNum)
      THEN /\ rateOut' = "Rating must be between 1 and 5"
           /\ UNCHANGED <<ratings, submitted, clock>>
      ELSE IF ~Resolves(getTemplates(store).templates, templateName)
      THEN /\ rateOut' = "Template not found"
           /\ UNCHANGED <<ratings, submitted, clock>>
      ELSE /\ Len(Submissions(templateName)) < MaxRatings
           /\ ratings' = addRating(ratings, templateName, ratingNum, comment, clock)
           /\ submitted' = (templateName :>
                              Append(Submissions(templateName),
                                     [arg |-> arg, comment |-> comment, date |-> clock]))
                             @@ submitted
           /\ clock' = clock + 1
           /\ rateOut' = "Rated"

RateCommand ==
  /\ \E templateName \in RateNames, arg \in RatingArgs, comment \in Comments :
       Rate(templateName, arg, comment)
  /\ UNCHANGED <<storeVars, qualityVars, projectVars>>

NextRating == RateCommand

SpecRating == InitRating /\ [][NextRating]_vars

(***************************************************************************)
(* Claims about ratings                                                    *)
(***************************************************************************)
\* the argument is the numeral of an integer in 1..5
IsRating(arg) == arg \in {"1", "2", "3", "4", "5"}

AllRatings(subs) == \A i \in 1..Len(subs) : IsRating(subs[i].arg)

RECURSIVE SumOfArgs(_)
SumOfArgs(subs) ==
  IF subs = <<>> THEN 0
  ELSE parseInt(subs[Len(subs)].arg).val + SumOfArgs(SubSeq(subs, 1, Len(subs) - 1))

\* C4: after accepted submissions r1..rn (each an integer in 1..5) for one
\* template, its record has votes = n and rating = (r1+...+rn)/n rounded to
\* one decimal place.
C4_RatingIsMean ==
  \A name \in DOMAIN submitted :
    AllRatings(submitted[name]) =>
      /\ ratings.templates[name].votes = Len(submitted[name])
      /\ ratings.templates[name].rating =
           RoundTenths(10 * SumOfArgs(submitted[name]), Len(submitted[name]))

\* C5: the ratings document is written only for a rating argument that is
\* an integer in 1..5 and a template name that resolves in the store: every
\* submission that reached the document is such a one.
C5_RejectedBeforeMutation ==
  /\ \A name \in DOMAIN submitted :
       /\ Resolves(getTemplates(store).templates, name)
       /\ AllRatings(submitted[name])
  /\ DOMAIN ratings.templates = DOMAIN submitted

Orders(n) == {p \in [1..n -> 1..n] : \A i, j \in 1..n : p[i] = p[j] => i = j}

RECURSIVE Replay(_, _, _)
\* the record after the submissions subs[p[1]], ..., subs[p[k]]
Replay(subs, p, k) ==
  IF k = 0 THEN NewRecord
  ELSE AddToRecord(Replay(subs, p, k - 1), parseInt(subs[p[k]].arg),
                   subs[p[k]].comment, subs[p[k]].date)

Commented(subs) == SelectSeq(subs, LAMBDA x : x.comment # "")

\* C6: for accepted ratings (integers in 1..5) of one template, the stored
\* rating and votes are those of every other order of the same submissions,
\* and the reviews are exactly the submissions that carried a comment, in
\* submission order.
C6_OrderIndependentMean ==
  \A name \in DOMAIN submitted :
    AllRatings(submitted[name]) =>
      LET subs == submitted[name]
          record == ratings.templates[name]
      IN  /\ \A p \in Orders(Len(subs)) :
               /\ Replay(subs, p, Len(subs)).rating = record.rating
               /\ Replay(subs, p, Len(subs)).votes = record.votes
          /\ Len(record.reviews) = Len(Commented(subs))
          /\ \A i \in 1..Len(record.reviews) :
               /\ record.reviews[i].comment = Commented(subs)[i].comment
               /\ record.reviews[i].rating = parseInt(Commented(subs)[i].arg).val
               /\ record.reviews[i].date = Commented(subs)[i].date

(***************************************************************************)
(* The init commands                                                       *)
(***************************************************************************)
\* no commands
NotesTpl ==
  [name |-> "notes", description |-> "Plain notes", version |-> "0.1.0",
   files |-> <<[path |-> "docs/notes.md", content |-> "N"]>>]

\* no files and no commands
EmptyTpl == [name |-> "empty", description |-> "Nothing to add", version |-> "3.0.0"]

ProjectStore ==
  <<[dir |-> "d1", json |-> ReactTpl], [dir |-> "d2", corrupt |-> TRUE],
    [dir |-> "d3", json |-> NotesTpl], [dir |-> "d4", json |-> BrokenTpl],
    [dir |-> "d5", json |-> EmptyTpl]>>

MaxCommands == 2

TemplateFlags == {"notes", "no-such-template"}

NameFlags == {"my-project"}

NamePromptInputs == {"", "my project", "my-project"}

PathFlags == {".", "my-project"}

ProjectNameChars == UpperChars \o LowerChars \o DigitChars \o "._-"

\* the prompt's validate: non-blank and /^[a-zA-Z0-9._-]+$/
ValidProjectName(input) ==
  /\ input # ""
  /\ \A i \in 1..Len(input) : IndexIn(CharAt(input, i), ProjectNameChars) > 0

\* the calls of a run that may throw: the project directory, each files
\* entry's directory and file, the marker
Fails(selected) ==
  {NoFail, [at |-> 0, op |-> "ensureProject"], [at |-> 0, op |-> "writeJson"]}
    \cup {[at |-> k, op |-> o] :
            k \in 1..(IF Has(selected, "files") THEN Len(selected.files) ELSE 0),
            o \in {"ensureDir", "writeFile"}}

ExecOutcomes == {"failed", "scaffold"}

\* how the template is chosen: --template <name>, or the prompt's choice
Selections(templates) ==
  {[flag |-> n] : n \in TemplateFlags} \cup {[choice |-> i] : i \in 1..Len(templates)}

\* templates.find(t => t.name === name): its index, 0 when there is none
FindByName(templates, name) ==
  IF Resolves(templates, name)
  THEN CHOOSE i \in 1..Len(templates) :
         /\ Has(templates[i], "name") /\ templates[i].name = name
         /\ \A j \in 1..(i - 1) : ~(Has(templates[j], "name") /\ templates[j].name = name)
  ELSE 0

Selected(templates, sel) ==
  IF Has(sel, "flag") THEN FindByName(templates, sel.flag) ELSE sel.choice

\* the target holds nothing yet
Fresh(files, projectPath) == \A q \in DOMAIN files : ~IsUnder(q, projectPath)

\* commands?.install is truthy
HasInstall(selected) ==
  Has(selected, "commands") /\ StrTruthy(selected.commands, "install")

\* Step 1: the framework's create command, or the bare project directory;
\* what the create command leaves behind is its own business
CreateProject(files, selected, projectPath, exec, fail) ==
  IF HasInstall(selected)
  THEN IF exec = "scaffold"
       THEN (pathJoin(projectPath, "package.json") :> FileNode("{}"))
              @@ ensureDir(files, projectPath)
       ELSE files
  ELSE IF fail.op = "ensureProject" THEN files ELSE ensureDir(files, projectPath)

\* init --template <name> --name <name>
InitNamed(sel, projectName, overwrite, exec, fail) ==
  LET templates == getTemplates(store).templates
      index == Selected(templates, sel)
      projectPath == pathResolve(projectName)
  IN  IF index = 0
      THEN /\ projOut' = [command |-> "init", variant |-> "name", status |-> "not found",
                          exit |-> 1]
           /\ UNCHANGED <<fs, written, clock>>
      ELSE IF pathExists(fs, projectPath) /\ ~overwrite
      THEN /\ projOut' = [command |-> "init", variant |-> "name", status |-> "cancelled",
                          exit |-> 0]
           /\ UNCHANGED <<fs, written, clock>>
      ELSE LET selected == templates[index]
               created == CreateProject(fs, selected, projectPath, exec, fail)
               copied == WriteFiles([fs |-> created, written |-> <<>>, ok |-> TRUE],
                                    projectPath, selected, fail)
               done == WriteMarker(copied, projectPath,
                                   NamedMarker(selected, clock, projectName), fail)
           IN  /\ fs' = done.fs
               /\ written' = done.written
               /\ clock' = clock + 1
               /\ projOut' = [command |-> "init", variant |-> "name",
                              status |-> IF done.ok THEN "added" ELSE "failed",
                              exit |-> 0, selected |-> selected,
                              projectPath |-> projectPath, projectName |-> projectName,
                              fresh |-> Fresh(fs, projectPath), at |-> clock]

\* init --template <name> --path <path>
InitAtPath(sel, target, fail) ==
  LET templates == getTemplates(store).templates
      index == Selected(templates, sel)
      projectPath == pathResolve(target)
  IN  IF index = 0
      THEN /\ projOut' = [command |-> "init", variant |-> "path", status |-> "not found",
                          exit |-> 1]
           /\ UNCHANGED <<fs, written, clock>>
      ELSE IF fail.op = "ensureProject"
      THEN /\ projOut' = [command |-> "init", variant |-> "path", status |-> "failed",
                          exit |-> 0, selected |-> templates[index],
                          projectPath |-> projectPath,
                          fresh |-> Fresh(fs, projectPath), at |-> clock]
           /\ written' = <<>>
           /\ UNCHANGED <<fs, clock>>
      ELSE LET selected == templates[index]
               copied == WriteFiles([fs |-> ensureDir(fs, projectPath), written |-> <<>>,
                                     ok |-> TRUE],
                                    projectPath, selected, fail)
               done == WriteMarker(copied, projectPath, PathMarker(selected, clock), fail)
           IN  /\ fs' = done.fs
               /\ written' = done.written
               /\ clock' = clock + 1
               /\ projOut' = [command |-> "init", variant |-> "path",
                              status |-> IF done.ok THEN "added" ELSE "failed",
                              exit |-> 0, selected |-> selected,
                              projectPath |-> projectPath,
                              fresh |-> Fresh(fs, projectPath), at |-> clock]

InitProject ==
  /\ store = ProjectStore
  /\ loaded = NotLoaded
  /\ report = NoReport
  /\ found = NotSearched
  /\ registry = NoRegistry
  /\ IdleQuality
  /\ IdleRating
  /\ IdleProject

\* the answers a run consumes: the overwrite prompt is shown for an
\* existing directory, the create command is run when there is one
Replies(asked) == IF asked THEN BOOLEAN ELSE {FALSE}

ExecOutcomesOf(selected) == IF HasInstall(selected) THEN ExecOutcomes ELSE {"none"}

FailsOf(templates, index) == IF index = 0 THEN {NoFail} ELSE Fails(templates[index])

InitNamedCommand ==
  /\ clock < MaxCommands
  /\ \E sel \in Selections(getTemplates(store).templates),
        projectName \in NameFlags \cup {n \in NamePromptInputs : ValidProjectName(n)} :
       LET templates == getTemplates(store).templates
           index == Selected(templates, sel)
       IN  \E overwrite \in Replies(index # 0 /\ pathExists(fs, pathResolve(projectName))),
              exec \in IF index = 0 THEN {"none"} ELSE ExecOutcomesOf(templates[index]),
              fail \in FailsOf(templates, index) :
             InitNamed(sel, projectName, overwrite, exec, fail)
  /\ UNCHANGED <<storeVars, qualityVars, ratingVars>>

InitAtPathCommand ==
  /\ clock < MaxCommands
  /\ \E sel \in Selections(getTemplates(store).templates), target \in PathFlags :
       \E fail \in FailsOf(getTemplates(store).templates,
                           Selected(getTemplates(store).templates, sel)) :
         InitAtPath(sel, target, fail)
  /\ UNCHANGED <<storeVars, qualityVars, ratingVars>>

NextInit == InitNamedCommand \/ InitAtPathCommand

SpecInit == InitProject /\ [][NextInit]_vars

(***************************************************************************)
(* Claims about init                                                       *)
(***************************************************************************)
WrittenPaths == {written[k].path : k \in 1..Len(written)}

\* C7: an init that succeeds on a fresh target writes exactly one file per
\* declared files entry, at target/path with the entry's content, plus the
\* marker .cursor-template.json holding the template's name and version,
\* the install timestamp and the project name, and writes nothing else.
C7_InitWritesFilesAndFullMarker ==
  (projOut.command = "init" /\ projOut.status = "added" /\ projOut.fresh) =>
    LET files == DeclaredFiles(projOut.selected)
        target == projOut.projectPath
        markerPath == pathJoin(target, MarkerName)
    IN  /\ Len(written) = Len(files) + 1
        /\ WrittenPaths = {pathJoin(target, files[i].path) : i \in 1..Len(files)}
                            \cup {markerPath}
        /\ \A i \in 1..Len(files) :
             fs[pathJoin(target, files[i].path)] = FileNode(files[i].content)
        /\ fs[markerPath].kind = "json"
        /\ DOMAIN fs[markerPath].doc = {"template", "version", "installedAt", "projectName"}
        /\ fs[markerPath].doc.template = projOut.selected.name
        /\ fs[markerPath].doc.version = projOut.selected.version
        /\ fs[markerPath].doc.installedAt = projOut.at
        /\ projOut.variant = "name" => fs[markerPath].doc.projectName = projOut.projectName

StoreVersions == {"1.0.0", "1.1.0", "1.9.0", "1.10.0", "1.01.0", "1.0"}

MarkerVersions == {"1.0.0", "1.1.0", "1.9.0", "1.10.0"}

MarkerTemplates == {"react-typescript-vite", "retired-template"}

\* the template of the project, at some version of the store
Released(version) == [ReactTpl EXCEPT !.version = version]

UpdateStores ==
  {<<[dir |-> "d1", corrupt |-> TRUE], [dir |-> "d2", json |-> Released(v)]>> :
     v \in StoreVersions}

ProjectMarkers ==
  {[template |-> t, version |-> v, installedAt |-> 0, projectName |-> "work"] :
     t \in MarkerTemplates, v \in MarkerVersions}

\* the project directory before the first update: with or without a marker,
\* with or without an earlier .cursorrules
Projects ==
  {EmptyFs, (pathResolve(".cursorrules") :> FileNode("OLD")) @@ EmptyFs}
    \cup {(pathResolve(MarkerName) :> JsonNode(m)) @@ EmptyFs : m \in ProjectMarkers}
    \cup {(pathResolve(MarkerName) :> JsonNode(m))
            @@ (pathResolve(".cursorrules") :> FileNode("OLD")) @@ EmptyFs :
            m \in ProjectMarkers}

InitUpdate ==
  /\ store \in UpdateStores
  /\ loaded = NotLoaded
  /\ report = NoReport
  /\ found = NotSearched
  /\ registry = NoRegistry
  /\ IdleQuality
  /\ IdleRating
  /\ fs \in Projects
  /\ written = <<>>
  /\ projOut = NoOutcome
  /\ clock = 0

\* templates.find(t => t.name === metadata.template): its index, 0 when
\* there is none
FindTemplate(templates, metadata) ==
  LET match(t) == IF Has(metadata, "template")
                  THEN Has(t, "name") /\ t.name = metadata.template
                  ELSE ~Has(t, "name")
  IN  IF \E i \in 1..Len(templates) : match(templates[i])
      THEN CHOOSE i \in 1..Len(templates) :
             match(templates[i]) /\ \A j \in 1..(i - 1) : ~match(templates[j])
      ELSE 0

UpdateFails(templates, index) ==
  IF index = 0 THEN {NoFail}
  ELSE {NoFail, [at |-> 0, op |-> "writeJson"]}
         \cup {[at |-> k, op |-> o] :
                 k \in 1..Len(DeclaredFiles(templates[index])),
                 o \in {"copy", "ensureDir", "writeFile"}}

\* update [--check] [--force].  A call that throws is rethrown to the outer
\* catch, whose handleError(error, 'update', { template: metadata?.template })
\* reads metadata outside the block that declares it: the ReferenceError
\* leaves the action as an unhandled rejection, and that handler exits with
\* status 1 before its own trackCommand has written anything.
Update(check, force, confirm, fail) ==
  LET tracked == trackCommand([fs |-> fs, written |-> <<>>, ok |-> TRUE], "update", TRUE, clock)
      metadataPath == pathResolve(MarkerName)
      Ends(state, outcome) ==
        /\ fs' = state.fs
        /\ written' = state.written
        /\ projOut' = [command |-> "update", check |-> check, force |-> force] @@ outcome
        /\ clock' = clock + 1
  IN  IF ~pathExists(tracked.fs, metadataPath)
      THEN Ends(tracked, [status |-> "no metadata", exit |-> 0])
      ELSE IF tracked.fs[metadataPath].kind # "json"
      THEN Ends(tracked, [status |-> "failed", exit |-> 1, handler |-> "unhandledRejection"])
      ELSE
        LET metadata == tracked.fs[metadataPath].doc
            templates == getTemplates(store).templates
            index == FindTemplate(templates, metadata)
        IN  IF index = 0
            THEN Ends(tracked, [status |-> "no longer exists", exit |-> 0])
            ELSE
              LET currentTemplate == templates[index]
                  hasUpdate == isNewer(VersionOf(currentTemplate), VersionOf(metadata))
                  versions == [latest |-> VersionOf(currentTemplate),
                               current |-> VersionOf(metadata)]
              IN  IF check
                  THEN Ends(tracked, [status |-> IF hasUpdate THEN "update available"
                                                 ELSE "up to date",
                                      exit |-> 0] @@ versions)
                  ELSE IF ~hasUpdate /\ ~force
                  THEN Ends(tracked, [status |-> "already up to date", exit |-> 0] @@ versions)
                  ELSE IF ~confirm
                  THEN Ends(tracked, [status |-> "cancelled", exit |-> 0] @@ versions)
                  ELSE
                    LET copied == UpdateFiles(tracked, currentTemplate, fail, clock)
                        marked == UpdateMarker(copied, metadataPath,
                                    UpdatedMetadata(metadata, currentTemplate, clock), fail)
                    IN  IF marked.ok
                        THEN Ends(trackCommand(marked, "update", TRUE, clock),
                                  [status |-> "updated", exit |-> 0] @@ versions)
                        ELSE Ends(marked, [status |-> "failed", exit |-> 1,
                                           handler |-> "unhandledRejection"] @@ versions)

UpdateCommand ==
  /\ clock < MaxCommands
  /\ \E check \in BOOLEAN, force \in BOOLEAN :
       LET metadataPath == pathResolve(MarkerName)
           templates == getTemplates(store).templates
           index == IF pathExists(fs, metadataPath) /\ fs[metadataPath].kind = "json"
                    THEN FindTemplate(templates, fs[metadataPath].doc) ELSE 0
           applies == index # 0 /\ ~check
       IN  \E confirm \in IF applies THEN BOOLEAN ELSE {TRUE},
              fail \in IF applies THEN UpdateFails(templates, index) ELSE {NoFail} :
             Update(check, force, confirm, fail)
  /\ UNCHANGED <<storeVars, qualityVars, ratingVars>>

NextUpdate == UpdateCommand

SpecUpdate == InitUpdate /\ [][NextUpdate]_vars

(***************************************************************************)
(* Claims about update                                                     *)
(***************************************************************************)
\* the numbers of a version of the form \d+.\d+.\d+
Triple(s) ==
  LET a == DigitRun(s, 1)
      b == DigitRun(s, a + 2)
      c == DigitRun(s, a + b + 3)
  IN  [major |-> DigitsValue(SubSeq(s, 1, a)),
       minor |-> DigitsValue(SubSeq(s, a + 2, a + b + 1)),
       patch |-> DigitsValue(SubSeq(s, a + b + 3, a + b + c + 2))]

\* latest is strictly newer than current: both are version triples and
\* latest comes later by major, then minor, then patch, compared as numbers
StrictlyNewer(latest, current) ==
  /\ latest.defined /\ current.defined
  /\ SemverTriple(latest.text) /\ SemverTriple(current.text)
  /\ Precedes(Triple(current.text), Triple(latest.text))

WritesToProject == \E k \in 1..Len(written) : IsUnder(written[k].path, Cwd)

\* C9: update --check writes nothing in the project, with or without
\* --force, and reports an update available exactly when the store version
\* is strictly newer than the marker's.
C9_CheckWritesNothingReportsNewer ==
  (projOut.command = "update" /\ projOut.check) =>
    /\ ~WritesToProject
    /\ Has(projOut, "latest") =>
         (projOut.status = "update available"
            <=> StrictlyNewer(projOut.latest, projOut.current))

\* C10: update without --check writes in the project only if the store
\* version is strictly newer than the marker's or --force is given, and not
\* when the template is gone or the confirmation is declined; with --force
\* and equal versions a confirmed update is performed.
C10_WritesOnlyIfNewerOrForced ==
  (projOut.command = "update" /\ ~projOut.check) =>
    /\ WritesToProject =>
         /\ Has(projOut, "latest")
         /\ StrictlyNewer(projOut.latest, projOut.current) \/ projOut.force
    /\ projOut.status \in {"no metadata", "no longer exists", "already up to date",
                           "cancelled"} => ~WritesToProject
    /\ (Has(projOut, "latest") /\ ~projOut.force
          /\ ~StrictlyNewer(projOut.latest, projOut.current)) =>
         projOut.status = "already up to date"
    /\ (Has(projOut, "latest") /\ projOut.force /\ projOut.latest = projOut.current
          /\ projOut.status \notin {"cancelled", "failed"}) =>
         /\ projOut.status = "updated"
         /\ \E k \in 1..Len(written) : written[k].op = "writeFile"

(***************************************************************************)
(* Claims about an applied update                                          *)
(***************************************************************************)
\* the marker document of a file system, NoFields when there is none
MarkerDoc(files) ==
  IF pathExists(files, pathResolve(MarkerName)) /\ files[pathResolve(MarkerName)].kind = "json"
  THEN files[pathResolve(MarkerName)].doc
  ELSE NoFields

\* b is a sibling of p named after p with the suffix .backup.<digits>
IsBackupOf(b, p) ==
  /\ b # <<>> /\ p # <<>>
  /\ pathDirname(b) = pathDirname(p)
  /\ LET name == p[Len(p)] \o ".backup."
         last == b[Len(b)]
     IN  /\ Len(last) > Len(name)
         /\ SubSeq(last, 1, Len(name)) = name
         /\ DigitRun(last, Len(name) + 1) = Len(last) - Len(name)

\* the files an update step has overwritten: written by writeFile and
\* present before the step
Overwritten ==
  {written'[k].path : k \in {j \in 1..Len(written') : written'[j].op = "writeFile"}}
    \cap DOMAIN fs

\* the store's template of the project's marker
MarkedTemplate ==
  LET templates == getTemplates(store).templates
  IN  templates[FindTemplate(templates, MarkerDoc(fs))]

AppliedUpdate ==
  /\ projOut'.command = "update"
  /\ projOut'.status \in {"updated", "failed"}
  /\ MarkerDoc(fs) # NoFields

BackedUpBeforeOverwrite ==
  /\ \A p \in Overwritten :
       \E b \in DOMAIN fs' : IsBackupOf(b, p) /\ fs'[b] = fs[p]
  /\ \A k \in 1..Len(written') :
       (written'[k].op = "writeFile" /\ written'[k].path \in DOMAIN fs) =>
         \E j \in 1..(k - 1) :
           /\ written'[j].op = "copy"
           /\ written'[j].entry = written'[k].entry
           /\ IsBackupOf(written'[j].path, written'[k].path)

MarkerAfterAllWrites ==
  LET files == DeclaredFiles(MarkedTemplate)
      writes == {k \in 1..Len(written') : written'[k].op = "writeFile"}
  IN  IF projOut'.status = "updated"
      THEN /\ Cardinality(writes) = Len(files)
           /\ \A i \in 1..Len(files) :
                /\ \E k \in writes : written'[k].entry = i
                /\ fs'[pathResolve(files[i].path)] = FileNode(files[i].content)
           /\ MarkerDoc(fs').version = MarkedTemplate.version
           /\ MarkerDoc(fs').updatedAt = clock
           /\ \A k \in DOMAIN MarkerDoc(fs) \ {"version", "updatedAt"} :
                MarkerDoc(fs')[k] = MarkerDoc(fs)[k]
      ELSE MarkerDoc(fs') = MarkerDoc(fs)

LowerTags(template) ==
  IF Has(template, "tags")
  THEN [i \in 1..Len(template.tags) |-> ToLowerCase(template.tags[i])]
  ELSE <<>>

\* Array.prototype.includes
Contains(seq, x) == \E i \in 1..Len(seq) : seq[i] = x

categoryMap ==
  [frontend  |-> <<"react", "vue", "angular", "svelte">>,
   backend   |-> <<"express", "fastapi", "django", "node", "python">>,
   mobile    |-> <<"react-native", "flutter", "mobile", "ios", "android">>,
   desktop   |-> <<"electron", "tauri", "desktop">>,
   fullstack |-> <<"nextjs", "t3", "remix", "nuxt", "fullstack", "ssr">>]

filterByCategory(templates, category) ==
  LET key == ToLowerCase(category)
      categoryTags == IF key \in DOMAIN categoryMap THEN categoryMap[key] ELSE <<>>
      tagged(tag) == \E k \in 1..Len(categoryTags) : Includes(tag, categoryTags[k])
  IN  SelectSeq(templates, LAMBDA t : \E i \in DOMAIN LowerTags(t) : tagged(LowerTags(t)[i]))

\* template.name.toLowerCase() and template.description.toLowerCase() throw
\* a TypeError when the key is undefined
MatchThrows(template) == ~Has(template, "name") \/ ~Has(template, "description")

\* nameMatch || descMatch || tagMatch
MatchesTerm(template, searchTerm) ==
  \/ Includes(ToLowerCase(template.name), searchTerm)
  \/ Includes(ToLowerCase(template.description), searchTerm)
  \/ \E i \in DOMAIN LowerTags(template) : Includes(LowerTags(template)[i], searchTerm)

\* templates.filter(...) with the callback above: it throws at the first
\* template the callback throws on
FilterMatches(templates, searchTerm) ==
  IF \E i \in 1..Len(templates) : MatchThrows(templates[i])
  THEN [failed |-> TRUE, results |-> <<>>]
  ELSE [failed |-> FALSE,
        results |-> SelectSeq(templates, LAMBDA t : MatchesTerm(t, searchTerm))]

\* the action of search <query> [-c category]; the catch prints the error
\* and the command ends with status 0
SearchAction(dirs, query, category) ==
  LET all == getTemplates(dirs).templates
      templates == IF category # "" THEN filterByCategory(all, category) ELSE all
  IN  FilterMatches(templates, ToLowerCase(query)) @@ [exit |-> 0]

\* the categories of the registry loadRegistry creates when there is no
\* registry file
DefaultCategories ==
  [frontend  |-> <<"react", "vue", "angular", "nextjs", "svelte">>,
   backend   |-> <<"express", "fastapi", "django", "rails", "spring">>,
   fullstack |-> <<"nextjs", "t3-stack", "remix", "nuxt">>,
   mobile    |-> <<"react-native", "flutter", "ionic">>,
   desktop   |-> <<"electron", "tauri">>,
   testing   |-> <<"jest", "pytest", "cypress", "playwright">>,
   devops    |-> <<"docker", "kubernetes", "terraform", "ansible">>]

\* results.filter(template => template.tags?.some(tag =>
\* categoryTags.includes(tag.toLowerCase())))
RegistryFilter(results, categories, category) ==
  LET categoryTags == IF category \in DOMAIN categories THEN categories[category] ELSE <<>>
  IN  SelectSeq(results,
        LAMBDA t : \E i \in DOMAIN LowerTags(t) : Contains(categoryTags, LowerTags(t)[i]))

\* results.sort((a, b) => bNameMatch - aNameMatch): Array.prototype.sort is
\* stable, so the exact names come first and each group keeps its order
SortByRelevance(results, searchTerm) ==
  LET exact(t) == ToLowerCase(t.name) = searchTerm
  IN  SelectSeq(results, exact) \o SelectSeq(results, LAMBDA t : ~exact(t))

\* TemplateDiscovery.searchTemplates behind the search command of
\* discoverCommand, whose action has no catch: a throw ends the process
searchTemplates(dirs, categories, query, category) ==
  LET searchTerm == ToLowerCase(query)
      matched == FilterMatches(getAllTemplates(dirs).templates, searchTerm)
      filtered == IF category # ""
                  THEN RegistryFilter(matched.results, categories, category)
                  ELSE matched.results
  IN  IF matched.failed THEN matched @@ [exit |-> 1]
      ELSE [failed |-> FALSE, results |-> SortByRelevance(filtered, searchTerm), exit |-> 0]

\* the templates list prints, after its category and tag filters
ListAction(dirs, category, tag) ==
  LET all == getTemplates(dirs).templates
      inCategory == IF category # "" THEN filterByCategory(all, category) ELSE all
      tagged(t) == \E i \in DOMAIN LowerTags(t) : Includes(LowerTags(t)[i], ToLowerCase(tag))
  IN  IF tag # "" THEN SelectSeq(inCategory, tagged) ELSE inCategory

GroupNames == <<"Frontend", "Backend", "Mobile", "Desktop", "Full-Stack", "Other">>

\* the tag lists groupTemplatesByCategory tests, one per named group
GroupTags ==
  <<<<"react", "vue", "angular", "svelte">>,
    <<"express", "fastapi", "django", "node", "python", "backend", "api">>,
    <<"react-native", "flutter", "mobile", "ios", "android">>,
    <<"electron", "tauri", "desktop">>,
    <<"nextjs", "t3", "remix", "nuxt", "fullstack", "ssr">>>>

\* tags.some(tag => [...].includes(tag.toLowerCase())) for group g
InGroup(template, g) ==
  \E i \in DOMAIN LowerTags(template) : Contains(GroupTags[g], LowerTags(template)[i])

\* groupTemplatesByCategory, without its empty groups
groupTemplatesByCategory(templates) ==
  LET members(g) ==
        IF g <= Len(GroupTags)
        THEN SelectSeq(templates, LAMBDA t : InGroup(t, g))
        ELSE SelectSeq(templates, LAMBDA t : \A h \in 1..Len(GroupTags) : ~InGroup(t, h))
      kept == {g \in 1..Len(GroupNames) : Len(members(g)) > 0}
  IN  [name \in {GroupNames[g] : g \in kept} |->
         members(CHOOSE g \in kept : GroupNames[g] = name)]

getCategories(templates) ==
  LET grouped == groupTemplatesByCategory(templates)
  IN  [name \in DOMAIN grouped |-> Len(grouped[name])]

(***************************************************************************)
(* The search, list and categories commands over a store                   *)
(***************************************************************************)
\* named exactly as a query, tagged with a longer word than a seed keyword
ReactExactTpl ==
  [name |-> "react", description |-> "Hooks and state", version |-> "2.0.0",
   tags |-> <<"ReactJS", "hooks">>, rules |-> FullRules]

NodeTpl ==
  [name |-> "node-api", description |-> "REST service", version |-> "1.0.0",
   tags |-> <<"Node", "api">>, rules |-> FullRules]

SearchTemplates == {ReactTpl, VueTpl, ReactExactTpl, NodeTpl, NotesTpl, BrokenTpl}

\* stores of one to MaxDirs subdirectories holding different templates
SearchStores ==
  UNION {{[i \in 1..n |-> [dir |-> DirName(i), json |-> s[i]]] :
            s \in {t \in [1..n -> SearchTemplates] :
                     \A i, j \in 1..n : i # j => t[i] # t[j]}} : n \in 1..MaxDirs}

Queries == {"React", "vite", "with", "api", "zzz"}

\* the --category option; "" when it is not given
CategoryFlags == {"", "frontend", "backend"}

\* the --tag option of list; "" when it is not given
TagFlags == {"", "Type"}

InitSearch ==
  /\ store \in SearchStores
  /\ loaded = NotLoaded
  /\ report = NoReport
  /\ found = NotSearched
  /\ registry = NoRegistry
  /\ IdleQuality
  /\ IdleRating
  /\ IdleProject

\* a run of the tool performs one command and exits: the commands below
\* are taken by a process that has not run its command yet
Started == found = NotSearched

\* search <query> [-c category] of the command line tool
SearchCommand ==
  /\ Started
  /\ \E query \in Queries, category \in CategoryFlags :
       found' = [op |-> "search", query |-> query, category |-> category]
                  @@ SearchAction(store, query, category)
  /\ UNCHANGED <<store, loaded, report, registry, qualityVars, ratingVars, projectVars, clock>>

\* search <query> [-c category] as discoverCommand registers it
DiscoverSearch ==
  /\ Started
  /\ \E query \in Queries, category \in CategoryFlags :
       found' = [op |-> "searchTemplates", query |-> query, category |-> category]
                  @@ searchTemplates(store, DefaultCategories, query, category)
  /\ UNCHANGED <<store, loaded, report, registry, qualityVars, ratingVars, projectVars, clock>>

\* list [-c category] [-t tag]
ListCommand ==
  /\ Started
  /\ \E category \in CategoryFlags, tag \in TagFlags :
       found' = [op |-> "list", category |-> category, tag |-> tag, failed |-> FALSE,
                 results |-> ListAction(store, category, tag), exit |-> 0]
  /\ UNCHANGED <<store, loaded, report, registry, qualityVars, ratingVars, projectVars, clock>>

\* categories
CategoriesCommand ==
  /\ Started
  /\ found' = [op |-> "categories",
               counts |-> getCategories(getTemplates(store).templates), exit |-> 0]
  /\ UNCHANGED <<store, loaded, report, registry, qualityVars, ratingVars, projectVars, clock>>

NextSearch == SearchCommand \/ DiscoverSearch \/ ListCommand \/ CategoriesCommand

SpecSearch == InitSearch /\ [][NextSearch]_vars

(***************************************************************************)
(* Claims about search, list and categories                                *)
(***************************************************************************)
Searched == found.op \in {"search", "searchTemplates"}

\* the parsed descriptors of the store, in load order
StoreDescriptors == [i \in 1..Len(ParsedDirs) |-> ParsedDirs[i].json]

\* the value of a key in lower case, "" for an absent key
LowerOf(t, key) == IF Has(t, key) THEN ToLowerCase(t[key]) ELSE ""

TagsOf(t) == IF Has(t, "tags") THEN {ToLowerCase(t.tags[i]) : i \in 1..Len(t.tags)} ELSE {}

\* the lowercased query is a substring of the lowercased name, description
\* or of a lowercased tag
QueryMatch(t, query) ==
  LET q == ToLowerCase(query)
  IN  \/ Has(t, "name") /\ Includes(LowerOf(t, "name"), q)
      \/ Has(t, "description") /\ Includes(LowerOf(t, "description"), q)
      \/ \E tag \in TagsOf(t) : Includes(tag, q)

ResultSet == {WithoutLocation(found.results[i]) : i \in 1..Len(found.results)}

\* C12: search(query) without a category returns exactly the templates of
\* the store whose lowercased name, description or some lowercased tag
\* contains the lowercased query, each once.
C12_SearchReturnsMatches ==
  (Searched /\ found.category = "") =>
    /\ ResultSet = {StoreDescriptors[i] : i \in {j \in 1..Len(StoreDescriptors) :
                                               QueryMatch(StoreDescriptors[j], found.query)}}
    /\ Cardinality(ResultSet) = Len(found.results)

\* the seed keywords of the named categories
SeedKeywords ==
  [frontend  |-> {"react", "vue", "angular", "svelte"},
   backend   |-> {"express", "fastapi", "django", "node", "python"},
   mobile    |-> {"react-native", "flutter", "mobile", "ios", "android"},
   desktop   |-> {"electron", "tauri", "desktop"},
   fullstack |-> {"nextjs", "t3", "remix", "nuxt", "fullstack", "ssr"}]

\* some lowercased tag of t contains a seed keyword of category c
InCategory(t, c) == \E tag \in TagsOf(t) : \E seed \in SeedKeywords[c] : Includes(tag, seed)

\* what the command's other arguments select: the query of a search, the
\* tag of a list
OtherwiseSelected(t) ==
  IF found.op = "list"
  THEN found.tag = "" \/ \E tag \in TagsOf(t) : Includes(tag, ToLowerCase(found.tag))
  ELSE QueryMatch(t, found.query)

\* C13: with a category filter, search (in both implementations) and list
\* return exactly the otherwise selected templates that have a tag whose
\* lowercase form contains a seed keyword of the category.
C13_CategoryFilterBySeeds ==
  (found.op \in {"search", "searchTemplates", "list"} /\ found.category \in DOMAIN SeedKeywords) =>
    ResultSet = {StoreDescriptors[i] : i \in {j \in 1..Len(StoreDescriptors) :
                    /\ OtherwiseSelected(StoreDescriptors[j])
                    /\ InCategory(StoreDescriptors[j], found.category)}}

\* the name getCategories reports a category under
GroupOf == [frontend |-> "Frontend", backend |-> "Backend", mobile |-> "Mobile",
            desktop |-> "Desktop", fullstack |-> "Full-Stack"]

CountOf(counts, name) == IF name \in DOMAIN counts THEN counts[name] ELSE 0

\* C14: the count getCategories reports for each named category is the
\* number of templates of the store that have a tag whose lowercase form
\* contains a seed keyword of that category, which is what the category
\* filter selects.
C14_CategoriesCountAsFilter ==
  found.op = "categories" =>
    \A c \in DOMAIN SeedKeywords :
      /\ CountOf(found.counts, GroupOf[c])
           = Cardinality({i \in 1..Len(StoreDescriptors) : InCategory(StoreDescriptors[i], c)})
      /\ CountOf(found.counts, GroupOf[c])
           = Len(filterByCategory(getTemplates(store).templates, c))

\* the place of a result in the store's load order
LoadIndex(t) ==
  CHOOSE i \in 1..Len(StoreDescriptors) : StoreDescriptors[i] = WithoutLocation(t)

ExactName(t) == LowerOf(t, "name") = ToLowerCase(found.query)

\* C15: in the result of a search every template whose name equals the
\* query case-insensitively comes before every template whose name does
\* not, and within each of the two groups the order is the load order.
C15_ExactNameFirst ==
  Searched =>
    \A i, j \in 1..Len(found.results) :
      i < j =>
        LET a == found.results[i]
            b == found.results[j]
        IN  /\ ~(ExactName(b) /\ ~ExactName(a))
            /\ (ExactName(a) <=> ExactName(b)) => LoadIndex(a) < LoadIndex(b)

(***************************************************************************)
(* The validate <template> command                                         *)
(***************************************************************************)
\* the action of validate <template>: entry is the subdirectory the
\* argument names.  readJson throws for a missing or unparseable descriptor
\* and the catch prints the error without setting an exit status.
ValidateAction(entry) ==
  IF ~Parses(entry) THEN [status |-> "Validation error", exit |-> 0]
  ELSE
    LET template == entry.json
        missing == SelectSeq(RequiredFields, LAMBDA f : FieldMissing(template, f))
    IN  IF Len(missing) > 0
        THEN [status |-> "Missing required fields: " \o Join(missing, ", "), exit |-> 1]
        ELSE IF ~SemverTriple(template.version)
        THEN [status |-> "Invalid version format. Use semantic versioning (x.y.z)", exit |-> 1]
        ELSE [status |-> "Template is valid!", exit |-> 0]

(***************************************************************************)
(* Descriptors given to the validator, the validate command and the        *)
(* scorer: every combination of the values below                           *)
(***************************************************************************)
CheckedNames == {NoFields, [name |-> ""], [name |-> "react-app"]}

CheckedDescriptions == {NoFields, [description |-> Repeat("d", 20)]}

CheckedVersions ==
  {NoFields, [version |-> ""], [version |-> "1.0.0"], [version |-> "1.0"],
   [version |-> "1.0.0-beta"], [version |-> "10.20.30"]}

CheckedTags == {NoFields, [tags |-> <<"react", "vite">>]}

CheckedRules ==
  {NoFields, [rules |-> NoFields], [rules |-> FullRules],
   [rules |-> [context |-> "", style |-> NoFields, restrictions |-> <<"no any">>]],
   [rules |-> [style |-> NoFields, preferences |-> <<"hooks">>]]}

CheckedFiles ==
  {NoFields,
   [files |-> <<[path |-> "README.md", content |-> "readme"]>>],
   [files |-> <<[path |-> ".cursorrules", content |-> BriefRules]>>],
   [files |-> <<[path |-> ".cursorrules", content |-> ""]>>],
   [files |-> <<[path |-> "README.md"], [content |-> "text"]>>],
   [files |-> <<[path |-> "README.md", content |-> "readme"], [path |-> ".cursorrules"]>>]}

CheckedCommands == {NoFields, [commands |-> [install |-> "npm install"]]}

CheckedDescriptors ==
  {n @@ d @@ v @@ t @@ r @@ f @@ c :
     n \in CheckedNames, d \in CheckedDescriptions, v \in CheckedVersions,
     t \in CheckedTags, r \in CheckedRules, f \in CheckedFiles, c \in CheckedCommands}

InitValidate ==
  /\ tpl \in {[dir |-> "d1"], [dir |-> "d1", corrupt |-> TRUE]}
               \cup {[dir |-> "d1", json |-> t] : t \in CheckedDescriptors}
  /\ metrics = NoMetrics
  /\ verdict = NotValidated
  /\ validated = NotValidated
  /\ store = <<>>
  /\ loaded = NotLoaded
  /\ report = NoReport
  /\ found = NotSearched
  /\ registry = NoRegistry
  /\ IdleRating
  /\ IdleProject

\* validateTemplate(templatePath, templateName) on the descriptor
ValidateTemplate ==
  /\ verdict' = [ran |-> TRUE] @@ validateTemplate(tpl)
  /\ UNCHANGED <<tpl, metrics, validated, storeVars, ratingVars, projectVars, clock>>

\* validate <template>
ValidateCommand ==
  /\ validated' = [ran |-> TRUE] @@ ValidateAction(tpl)
  /\ UNCHANGED <<tpl, metrics, verdict, storeVars, ratingVars, projectVars, clock>>

NextValidate == ValidateTemplate \/ ValidateCommand \/ AnalyzeTemplate

SpecValidate == InitValidate /\ [][NextValidate]_vars

(***************************************************************************)
(* Claims about validate                                                   *)
(***************************************************************************)
Template == tpl.json

ErrorSet == {verdict.errors[i] : i \in 1..Len(verdict.errors)}

WarningSet == {verdict.warnings[i] : i \in 1..Len(verdict.warnings)}

FormatError == "Invalid version format. Use semantic versioning (x.y.z)"

\* digits.digits.digits over the whole string
IsTriple(s) ==
  \E a, b \in 1..Len(s) :
    /\ a + 1 < b /\ b < Len(s)
    /\ CharAt(s, a) = "." /\ CharAt(s, b) = "."
    /\ \A i \in 1..Len(s) : i \notin {a, b} => IsDigit(CharAt(s, i))
    /\ a > 1

\* the best-practices points the scorer has credited for the version: the
\* score of the dimension against the score of the same descriptor without
\* its version
VersionPoints ==
  metrics.analysis.bestPractices.score
    - analyzeBestPractices([k \in DOMAIN Template \ {"version"} |-> Template[k]]).score

\* C17: for every descriptor with a version, validate reports an error
\* about the version (the format error, or for an empty version the
\* missing-field error) iff the version is not digits.digits.digits over
\* the whole string, and the scorer credits the 5 versioning points for
\* exactly the versions that are.
C17_VersionPatternBothSides ==
  (Parses(tpl) /\ Has(Template, "version")) =>
    /\ verdict.ran =>
         ((FormatError \in ErrorSet \/ "Missing required field: version" \in ErrorSet)
            <=> ~IsTriple(Template.version))
    /\ Analysed =>
         /\ Has(metrics, "analysis")
         /\ VersionPoints = IF IsTriple(Template.version) THEN 5 ELSE 0

\* a string field is missing when absent or empty, rules when absent
Missing(t, field) ==
  IF field = "rules" THEN ~Has(t, field) ELSE ~Has(t, field) \/ t[field] = ""

FilesOf(t) == IF Has(t, "files") THEN t.files ELSE <<>>

\* the files entries lacking path or content
BadEntries(t) ==
  {i \in 1..Len(FilesOf(t)) : Missing(FilesOf(t)[i], "path") \/ Missing(FilesOf(t)[i], "content")}

CountPrefixed(errors, prefix) ==
  Cardinality({i \in 1..Len(errors) :
                 Len(errors[i]) >= Len(prefix) /\ SubSeq(errors[i], 1, Len(prefix)) = prefix})

\* C18: the errors validate returns for a parsed descriptor are one
\* missing-field error per absent field among name, description, version,
\* rules, one format error for a version that is present and not a triple,
\* and one invalid-file-entry error per files entry lacking path or
\* content, whatever its path; the warnings about rules and tags collected
\* before the files are returned with them.
C18_ErrorsAccumulate ==
  (verdict.ran /\ Parses(tpl)) =>
    /\ \A f \in {"name", "description", "version", "rules"} :
         ("Missing required field: " \o f) \in ErrorSet <=> Missing(Template, f)
    /\ CountPrefixed(verdict.errors, "Missing required field: ")
         = Cardinality({f \in {"name", "description", "version", "rules"} : Missing(Template, f)})
    /\ CountPrefixed(verdict.errors, FormatError)
         = IF ~Missing(Template, "version") /\ ~IsTriple(Template.version) THEN 1 ELSE 0
    /\ CountPrefixed(verdict.errors, "Invalid file entry: ") = Cardinality(BadEntries(Template))
    /\ Len(verdict.errors)
         = CountPrefixed(verdict.errors, "Missing required field: ")
             + CountPrefixed(verdict.errors, FormatError)
             + CountPrefixed(verdict.errors, "Invalid file entry: ")
    /\ (~Has(Template, "tags") \/ Template.tags = <<>>) => "No tags specified" \in WarningSet
    /\ (Has(Template, "rules") /\ ~Has(Template.rules, "style"))
         => "Missing rules.style" \in WarningSet

\* rules is present and has no (or an empty) context
LacksContext(t) == Has(t, "rules") /\ Missing(t.rules, "context")

\* the best-practices score of a descriptor whose rules get none of the 4
\* context points: 5 for a version triple, 5 for tags, 4 for style, 3 for
\* restrictions, 4 for preferences
ScoreWithoutContext(t) ==
  (IF ~Missing(t, "version") /\ IsTriple(t.version) THEN 5 ELSE 0)
    + (IF Has(t, "tags") /\ t.tags # <<>> THEN 5 ELSE 0)
    + (IF Has(t.rules, "style") THEN 4 ELSE 0)
    + (IF Has(t.rules, "restrictions") /\ t.rules.restrictions # <<>> THEN 3 ELSE 0)
    + (IF Has(t.rules, "preferences") /\ t.rules.preferences # <<>> THEN 4 ELSE 0)

\* C19: for every descriptor whose rules lack context, validate returns the
\* warning 'Missing rules.context' and the best-practices dimension of the
\* score holds none of the 4 context points.
C19_MissingContextBothSides ==
  (Parses(tpl) /\ LacksContext(Template)) =>
    /\ verdict.ran => "Missing rules.context" \in WarningSet
    /\ (Analysed /\ Has(metrics, "analysis")) =>
         metrics.analysis.bestPractices.score = ScoreWithoutContext(Template)

\* C20: validate <template> exits with a non-zero status iff validate
\* returns at least one error for the descriptor, and reports 'Template is
\* valid!' with status 0 iff validate returns none.
C20_CommandAgreesWithValidator ==
  (validated.ran /\ verdict.ran) =>
    /\ validated.exit # 0 <=> Len(verdict.errors) > 0
    /\ (validated.status = "Template is valid!" /\ validated.exit = 0)
         <=> Len(verdict.errors) = 0

(***************************************************************************)
(* The grade bands                                                         *)
(***************************************************************************)
MaxScore == 100

\* calculateGrade(score) for a score that analyzeTemplate has not produced
\* from the descriptor at hand: the result is kept as a scoring result
CalculateGrade ==
  /\ metrics = NoMetrics
  /\ \E score \in 0..MaxScore :
       metrics' = [name |-> tpl.dir, score |-> score, grade |-> calculateGrade(score),
                   banded |-> TRUE]
  /\ UNCHANGED <<tpl, verdict, validated, storeVars, ratingVars, projectVars, clock>>

NextGrade == CalculateGrade \/ AnalyzeTemplate

SpecGrade == InitValidate /\ [][NextGrade]_vars

\* the band table: the grade of the first band whose floor the score reaches
Bands ==
  <<[floor |-> 90, grade |-> "A+"], [floor |-> 85, grade |-> "A"], [floor |-> 80, grade |-> "A-"],
    [floor |-> 75, grade |-> "B+"], [floor |-> 70, grade |-> "B"], [floor |-> 65, grade |-> "B-"],
    [floor |-> 60, grade |-> "C+"], [floor |-> 55, grade |-> "C"], [floor |-> 50, grade |-> "C-"],
    [floor |-> 40, grade |-> "D"], [floor |-> 0, grade |-> "F"]>>

\* the place of a score's band in the table, 1 for the best
BandOf(score) == CHOOSE i \in 1..Len(Bands) :
                   score >= Bands[i].floor /\ \A j \in 1..(i - 1) : score < Bands[j].floor

\* the place of a grade in the table
RankOf(grade) == CHOOSE i \in 1..Len(Bands) : Bands[i].grade = grade

\* C21: every scoring result carries the grade the band table gives its
\* score, for every score in 0..100, and the grade never gets worse as the
\* score grows: against every lower score the result's grade is at least
\* as good.
C21_GradeIsBandOfScore ==
  Analysed =>
    /\ metrics.score \in 0..MaxScore
    /\ metrics.grade = Bands[BandOf(metrics.score)].grade
    /\ \A lower \in 0..metrics.score :
         RankOf(metrics.grade) <= RankOf(calculateGrade(lower))

\* a result at the floor of a band, and one just below a floor
C21_Witness ==
  /\ Analysed
  /\ metrics.score = 85
  /\ metrics.grade = "A"
  /\ calculateGrade(84) = "A-"

(***************************************************************************)
(* The scorer's dimensions taken one at a time                             *)
(***************************************************************************)
\* the scorer's descriptors, and those with an empty name
DimensionInputs ==
  Descriptors \cup {[name |-> ""] @@ t : t \in {d \in Descriptors : ~Has(d, "name")}}

InitDimension ==
  /\ tpl \in {[dir |-> "d1", json |-> t] : t \in DimensionInputs}
  /\ metrics = NoMetrics
  /\ verdict = NotValidated
  /\ validated = NotValidated
  /\ store = <<>>
  /\ loaded = NotLoaded
  /\ report = NoReport
  /\ found = NotSearched
  /\ registry = NoRegistry
  /\ IdleRating
  /\ IdleProject

\* analyzeCompleteness(template) on the parsed descriptor
AnalyzeCompleteness ==
  /\ metrics = NoMetrics
  /\ metrics' = [name |-> tpl.dir, score |-> 0, grade |-> "",
                 dimension |-> "completeness", result |-> analyzeCompleteness(tpl.json)]
  /\ UNCHANGED <<tpl, verdict, validated, storeVars, ratingVars, projectVars, clock>>

\* analyzeUsability(template) on the parsed descriptor
AnalyzeUsability ==
  /\ metrics = NoMetrics
  /\ metrics' = [name |-> tpl.dir, score |-> 0, grade |-> "",
                 dimension |-> "usability", result |-> analyzeUsability(tpl.json)]
  /\ UNCHANGED <<tpl, verdict, validated, storeVars, ratingVars, projectVars, clock>>

NextDimension == AnalyzeCompleteness \/ AnalyzeUsability

SpecDimension == InitDimension /\ [][NextDimension]_vars

(***************************************************************************)
(* Claims about the dimensions                                             *)
(***************************************************************************)
Scored(dimension) == Has(metrics, "dimension") /\ metrics.dimension = dimension

\* the strings of a list
Strings(list) == {list[i] : i \in 1..Len(list)}

\* a field with a value: an object or an array (rules, files, commands,
\* tags), or a non-empty string
Present(object, field) ==
  /\ field \in DOMAIN object
  /\ field \in {"rules", "files", "commands", "tags"} \/ object[field] # ""

MissingCount ==
  Cardinality({f \in {"name", "description", "version", "rules", "files"} : ~Present(Template, f)})

FieldPoints == IF 15 - 3 * MissingCount > 0 THEN 15 - 3 * MissingCount ELSE 0

HasEntries == Present(Template, "files") /\ Len(Template.files) > 0

CursorRulesEntry ==
  HasEntries /\ \E i \in 1..Len(Template.files) :
                  "path" \in DOMAIN Template.files[i] /\ Template.files[i].path = ".cursorrules"

FilePoints == IF CursorRulesEntry THEN 10 ELSE IF HasEntries THEN 5 ELSE 0

CommandPresent(command) ==
  Present(Template, "commands") /\ Present(Template.commands, command)

CommandPoints ==
  IF CommandPresent("install") /\ CommandPresent("dev") THEN 5
  ELSE IF CommandPresent("install") \/ CommandPresent("dev") THEN 3
  ELSE 0

CompletenessPoints ==
  /\ metrics.result.score = FieldPoints + FilePoints + CommandPoints
  /\ (HasEntries /\ ~CursorRulesEntry) => "Missing .cursorrules file" \in Strings(metrics.result.issues)
  /\ ~HasEntries => "No template files defined" \in Strings(metrics.result.issues)

FrameworkKeywords ==
  {"react", "vue", "angular", "svelte", "nextjs", "nuxt", "flutter", "django", "express"}

KebabName == Present(Template, "name") /\ KebabCase(Template.name)

NamesFramework ==
  \E word \in FrameworkKeywords :
    \/ \E i \in 1..Len(Template.tags) : Includes(ToLowerCase(Template.tags[i]), word)
    \/ Present(Template, "name") /\ Includes(ToLowerCase(Template.name), word)

FrameworkBlock == Present(Template, "tags") /\ Present(Template, "rules")

NamePoints == IF KebabName THEN 5 ELSE 3

AuthorPoints == IF Present(Template, "author") THEN 5 ELSE 0

FrameworkPoints == IF ~FrameworkBlock THEN 0 ELSE IF NamesFramework THEN 10 ELSE 5

\* C23: the Usability dimension is 5 for a kebab-case name, else 3 with a
\* recommendation; plus 5 for an author, else a recommendation; plus, only
\* when tags and rules are both present, 10 if a tag or the name contains a
\* framework keyword, else 5 with a recommendation; without tags or rules the
\* framework block adds nothing
C23_UsabilityAsStated ==
  Scored("usability") =>
    /\ ~metrics.result.threw
    /\ metrics.result.score = NamePoints + AuthorPoints + FrameworkPoints
    /\ metrics.result.issues = <<>>
    /\ ("Use kebab-case for template name" \in Strings(metrics.result.recommendations))
         <=> ~KebabName
    /\ ("Add author information" \in Strings(metrics.result.recommendations))
         <=> ~Present(Template, "author")
    /\ ("Specify target framework in tags" \in Strings(metrics.result.recommendations))
         <=> (FrameworkBlock /\ ~NamesFramework)

(***************************************************************************)
(* The metrics report (analyzeAllTemplates and its summary)                *)
(***************************************************************************)
\* !r.error
WithoutError(r) == ~StrTruthy(r, "error")

RECURSIVE ScoreSum(_)
\* results.reduce((sum, r) => sum + r.score, 0)
ScoreSum(results) ==
  IF results = <<>> THEN 0
  ELSE ScoreSum(SubSeq(results, 1, Len(results) - 1)) + results[Len(results)].score

\* Math.round(total / n) of a total >= 0
RoundedMean(total, n) == (2 * total + n) \div (2 * n)

getGradeDistribution(results) ==
  [g \in {results[i].grade : i \in 1..Len(results)} |->
     Cardinality({i \in 1..Len(results) : results[i].grade = g})]

RECURSIVE Gather(_, _)
\* the strings the nested forEach visits, in order; r.issues?.forEach skips a
\* result without the field
Gather(results, field) ==
  IF results = <<>> THEN <<>>
  ELSE LET r == results[Len(results)]
       IN  Gather(SubSeq(results, 1, Len(results) - 1), field)
             \o (IF Has(r, field) THEN r[field] ELSE <<>>)

\* issueCount[issue] = (issueCount[issue] || 0) + 1 on an object whose keys
\* keep their insertion order
Tally(counts, text) ==
  IF \E i \in 1..Len(counts) : counts[i].key = text
  THEN [i \in 1..Len(counts) |->
          IF counts[i].key = text THEN [counts[i] EXCEPT !.count = @ + 1] ELSE counts[i]]
  ELSE Append(counts, [key |-> text, count |-> 1])

RECURSIVE TallyAll(_)
TallyAll(strings) ==
  IF strings = <<>> THEN <<>>
  ELSE Tally(TallyAll(SubSeq(strings, 1, Len(strings) - 1)), strings[Len(strings)])

\* a variant that puts an entry ahead of the entries of equal count
InsertByCountBeforeTies(sorted, entry) ==
  LET ahead == Cardinality({i \in 1..Len(sorted) : sorted[i].count > entry.count})
  IN  SubSeq(sorted, 1, ahead) \o <<entry>> \o SubSeq(sorted, ahead + 1, Len(sorted))

\* where a stable descending sort puts one more entry
InsertByCount(sorted, entry) ==
  LET ahead == Cardinality({i \in 1..Len(sorted) : sorted[i].count >= entry.count})
  IN  SubSeq(sorted, 1, ahead) \o <<entry>> \o SubSeq(sorted, ahead + 1, Len(sorted))

RECURSIVE SortByCount(_)
\* .sort(([,a], [,b]) => b - a), which is stable
SortByCount(entries) ==
  IF entries = <<>> THEN <<>>
  ELSE InsertByCount(SortByCount(SubSeq(entries, 1, Len(entries) - 1)), entries[Len(entries)])

\* Object.entries(count).sort(...).slice(0, 5)
TopFive(results, field) ==
  LET sorted == SortByCount(TallyAll(Gather(results, field)))
  IN  SubSeq(sorted, 1, IF Len(sorted) < 5 THEN Len(sorted) ELSE 5)

getTopIssues(results) ==
  LET top == TopFive(results, "issues")
  IN  [i \in 1..Len(top) |-> [issue |-> top[i].key, count |-> top[i].count]]

getTopRecommendations(results) ==
  LET top == TopFive(results, "recommendations")
  IN  [i \in 1..Len(top) |-> [recommendation |-> top[i].key, count |-> top[i].count]]

generateSummary(results) ==
  LET validResults == SelectSeq(results, WithoutError)
  IN  [total |-> Len(results),
       analyzed |-> Len(validResults),
       averageScore |-> IF Len(validResults) > 0
                        THEN RoundedMean(ScoreSum(validResults), Len(validResults)) ELSE 0,
       gradeDistribution |-> getGradeDistribution(validResults),
       topIssues |-> getTopIssues(validResults),
       topRecommendations |-> getTopRecommendations(validResults)]

\* getGradeColor: the chalk colour for the grade; chalk has no orange, so the
\* D grades get undefined
getGradeColor(grade) ==
  IF CharAt(grade, 1) = "A" THEN "green"
  ELSE IF CharAt(grade, 1) = "B" THEN "blue"
  ELSE IF CharAt(grade, 1) = "C" THEN "yellow"
  ELSE IF CharAt(grade, 1) = "D" THEN "undefined"
  ELSE "red"

\* the loop body of analyzeAllTemplates: the calls gradeColor(metrics.grade)
\* and metrics.issues.length are outside analyzeTemplate's try
AnalyzeDir(acc, entry) ==
  IF acc.threw \/ ~HasDescriptor(entry) THEN acc
  ELSE LET m == analyzeTemplate(entry)
           pushed == [acc EXCEPT !.results = Append(@, m)]
       IN  IF getGradeColor(m.grade) = "undefined" \/ ~Has(m, "issues")
           THEN [pushed EXCEPT !.threw = TRUE]
           ELSE pushed

RECURSIVE AnalyzeFrom(_, _, _)
AnalyzeFrom(acc, dirs, i) ==
  IF i > Len(dirs) THEN acc ELSE AnalyzeFrom(AnalyzeDir(acc, dirs[i]), dirs, i + 1)

\* analyzeAllTemplates: the report is written after the loop; a throw in the
\* loop rejects the promise before anything is written
analyzeAllTemplates(dirs) ==
  LET done == AnalyzeFrom([threw |-> FALSE, results |-> <<>>], dirs, 1)
  IN  IF done.threw
      THEN [op |-> "analyzeAllTemplates", threw |-> TRUE, written |-> FALSE,
            results |-> done.results]
      ELSE [op |-> "analyzeAllTemplates", threw |-> FALSE, written |-> TRUE,
            results |-> done.results, summary |-> generateSummary(done.results)]

(***************************************************************************)
(* The report over stores of up to MaxResults subdirectories               *)
(***************************************************************************)
\* scores 43, grade D
PlainTpl ==
  [name |-> "plain-tool", description |-> "A plain tool", version |-> "1.0.0",
   author |-> "sangam", rules |-> [context |-> "You are an expert"],
   files |-> <<[path |-> "README.md", content |-> "readme"]>>]

MetricTemplates == {ReactTpl, VueTpl, BrokenTpl, NoContentTpl, PlainTpl}

MaxResults == 3

MetricChoices(i) ==
  {[dir |-> DirName(i)]} \cup {[dir |-> DirName(i), json |-> t] : t \in MetricTemplates}

MetricStores ==
  UNION {{s \in [1..n -> UNION {MetricChoices(i) : i \in 1..n}] :
            \A i \in 1..n : s[i] \in MetricChoices(i)} : n \in 0..MaxResults}

InitReport ==
  /\ store \in MetricStores
  /\ loaded = NotLoaded
  /\ report = NoReport
  /\ found = NotSearched
  /\ registry = NoRegistry
  /\ IdleQuality
  /\ IdleRating
  /\ IdleProject

RECURSIVE ResultsOf(_)
\* analyzeTemplate on every descriptor, as analyzeAllTemplates' loop calls it
ResultsOf(dirs) ==
  IF dirs = <<>> THEN <<>>
  ELSE LET entry == dirs[Len(dirs)]
       IN  ResultsOf(SubSeq(dirs, 1, Len(dirs) - 1))
             \o (IF HasDescriptor(entry) THEN <<analyzeTemplate(entry)>> ELSE <<>>)

\* generateSummary(results) on the results of the store's descriptors
GenerateSummary ==
  /\ report = NoReport
  /\ report' = [op |-> "generateSummary", results |-> ResultsOf(store),
                summary |-> generateSummary(ResultsOf(store))]
  /\ UNCHANGED <<store, loaded, found, registry, qualityVars, ratingVars, projectVars, clock>>

\* node quality-metrics.js
AnalyzeAllTemplates ==
  /\ report = NoReport
  /\ report' = analyzeAllTemplates(store)
  /\ UNCHANGED <<store, loaded, found, registry, qualityVars, ratingVars, projectVars, clock>>

NextReport == GenerateSummary \/ AnalyzeAllTemplates

SpecReport == InitReport /\ [][NextReport]_vars

(***************************************************************************)
(* Claims about the report                                                 *)
(***************************************************************************)
Summarised == Has(report, "op") /\ report.op = "generateSummary"

\* the results without an error
Analysable == {i \in 1..Len(report.results) : ~Has(report.results[i], "error")}

RECURSIVE ScoreOver(_)
ScoreOver(indices) ==
  IF indices = {} THEN 0
  ELSE LET i == CHOOSE i \in indices : TRUE
       IN  report.results[i].score + ScoreOver(indices \ {i})

RECURSIVE HistogramTotal(_, _)
HistogramTotal(histogram, grades) ==
  IF grades = {} THEN 0
  ELSE LET g == CHOOSE g \in grades : TRUE
       IN  histogram[g] + HistogramTotal(histogram, grades \ {g})

\* an occurrence <<i, j>>: string number j of the field of result number i
Occurrences(field) ==
  UNION {{<<i, j>> : j \in 1..Len(report.results[i][field])} : i \in Analysable}

TextAt(field, o) == report.results[o[1]][field][o[2]]

Frequency(field, text) == Cardinality({o \in Occurrences(field) : TextAt(field, o) = text})

Earlier(a, b) == a[1] < b[1] \/ (a[1] = b[1] /\ a[2] < b[2])

FirstSeen(field, text) ==
  CHOOSE o \in Occurrences(field) :
    /\ TextAt(field, o) = text
    /\ \A other \in Occurrences(field) : TextAt(field, other) = text => ~Earlier(other, o)

\* text a comes before text b in the ranking: more frequent, or as frequent
\* and seen first
Outranks(field, a, b) ==
  \/ Frequency(field, a) > Frequency(field, b)
  \/ /\ Frequency(field, a) = Frequency(field, b)
     /\ Earlier(FirstSeen(field, a), FirstSeen(field, b))

TopRanked(top, key, field) ==
  LET texts == {TextAt(field, o) : o \in Occurrences(field)}
      listed == {top[i][key] : i \in 1..Len(top)}
  IN  /\ Len(top) <= 5
      /\ Len(top) < 5 => listed = texts
      /\ \A i \in 1..Len(top) :
           /\ top[i][key] \in texts
           /\ top[i].count = Frequency(field, top[i][key])
      /\ \A i, j \in 1..Len(top) : i < j => Outranks(field, top[i][key], top[j][key])
      /\ \A text \in texts \ listed : \A i \in 1..Len(top) : Outranks(field, top[i][key], text)

\* C24: the summary of a list of results has total = the number of results,
\* analyzed = the number without error, averageScore = the rounded mean of
\* the analyzed scores (0 when none), a grade histogram summing to analyzed,
\* and topIssues / topRecommendations with at most 5 distinct strings, the
\* most frequent first, equally frequent ones in first-seen order
C24_SummaryOfResults ==
  Summarised =>
    LET summary == report.summary
        n == Cardinality(Analysable)
    IN  /\ summary.total = Len(report.results)
        /\ summary.analyzed = n
        /\ IF n = 0 THEN summary.averageScore = 0
           ELSE /\ 2 * (summary.averageScore * n - ScoreOver(Analysable)) <= n
                /\ 2 * (ScoreOver(Analysable) - summary.averageScore * n) <= n
        /\ DOMAIN summary.gradeDistribution = {report.results[i].grade : i \in Analysable}
        /\ \A g \in DOMAIN summary.gradeDistribution :
             summary.gradeDistribution[g] =
               Cardinality({i \in Analysable : report.results[i].grade = g})
        /\ HistogramTotal(summary.gradeDistribution, DOMAIN summary.gradeDistribution) = n
        /\ TopRanked(summary.topIssues, "issue", "issues")
        /\ TopRanked(summary.topRecommendations, "recommendation", "recommendations")

\* three results, one of them an error, a mean that is not a whole number,
\* more than five distinct issues and a tie among the listed ones
C24_Witness ==
  /\ Summarised
  /\ report.summary.total = 3
  /\ report.summary.analyzed = 2
  /\ ScoreOver(Analysable) % 2 = 1
  /\ Cardinality({TextAt("issues", o) : o \in Occurrences("issues")}) > 5
  /\ Len(report.summary.topIssues) = 5
  /\ report.summary.topIssues[1].count = report.summary.topIssues[2].count
  /\ report.summary.topIssues[1].count > report.summary.topIssues[5].count

Reported == Has(report, "op") /\ report.op = "analyzeAllTemplates"

DescriptorDirs == SelectSeq(store, HasDescriptor)

\* C27: analyzeAllTemplates yields one result per subdirectory with a
\* descriptor, a failed scoring included (score 0, grade F), and always
\* writes the report, whose summary's total is the number of descriptors
C27_EveryDescriptorReported ==
  Reported =>
    /\ ~report.threw
    /\ report.written
    /\ Len(report.results) = Len(DescriptorDirs)
    /\ \A i \in 1..Len(DescriptorDirs) :
         /\ report.results[i].name = DescriptorDirs[i].dir
         /\ Has(report.results[i], "error") =>
              (report.results[i].score = 0 /\ report.results[i].grade = "F")
    /\ report.summary.total = Len(DescriptorDirs)

(***************************************************************************)
(* The registry and the GitHub import (TemplateDiscovery)                  *)
(***************************************************************************)
TemplatesDir == InstallRoot \o <<"templates">>

RegistryFile == InstallRoot \o <<"registry.json">>

\* the registry loadRegistry creates when there is no registry file
DefaultRegistry ==
  [templates |-> <<>>, categories |-> DefaultCategories, featured |-> <<>>, trending |-> <<>>]

GitHubHost == "github.com/"

RECURSIVE SegmentRun(_, _)
\* how many characters [^\/]+ takes from position i on
SegmentRun(s, i) ==
  IF i > Len(s) \/ CharAt(s, i) = "/" THEN 0 ELSE 1 + SegmentRun(s, i + 1)

\* /github\.com\/([^\/]+)\/([^\/]+)/ tried at position i
MatchAt(s, i) ==
  LET from == i + Len(GitHubHost)
      o == SegmentRun(s, from)
      r == SegmentRun(s, from + o + 1)
  IN  IF /\ from - 1 <= Len(s)
         /\ SubSeq(s, i, from - 1) = GitHubHost
         /\ o > 0
         /\ from + o <= Len(s)
         /\ r > 0
      THEN [matched |-> TRUE,
            owner |-> SubSeq(s, from, from + o - 1),
            repo |-> SubSeq(s, from + o + 1, from + o + r)]
      ELSE [matched |-> FALSE]

\* repoUrl.match(...): the leftmost position where the pattern matches
MatchGitHub(s) ==
  IF \E i \in 1..Len(s) : MatchAt(s, i).matched
  THEN MatchAt(s, CHOOSE i \in 1..Len(s) :
                    MatchAt(s, i).matched /\ \A j \in 1..(i - 1) : ~MatchAt(s, j).matched)
  ELSE [matched |-> FALSE]

TemplateSuffix == "-template"

\* repo.replace(/-template$/, '')
StripTemplateSuffix(repo) ==
  LET n == Len(repo) - Len(TemplateSuffix)
  IN  IF n >= 0 /\ SubSeq(repo, n + 1, Len(repo)) = TemplateSuffix
      THEN SubSeq(repo, 1, n) ELSE repo

\* the placeholder importFromGitHub builds
Placeholder(repoUrl, owner, repo) ==
  [name |-> StripTemplateSuffix(repo),
   description |-> "Template from " \o owner \o "/" \o repo,
   version |-> "1.0.0",
   author |-> owner,
   tags |-> <<"external", "github">>,
   source |-> repoUrl,
   rules |-> [context |-> "Imported from GitHub", style |-> NoFields,
              restrictions |-> <<>>, preferences |-> <<>>]]

\* this.registry.templates.find(t => t.name === template.name)
Indexed(reg, name) == \E i \in 1..Len(reg.templates) : reg.templates[i].name = name

\* a variant without the find: every import pushes an entry
addToRegistryAlways(reg, template, now) ==
  [reg EXCEPT !.templates =
     Append(@, [name |-> template.name, description |-> template.description,
                version |-> template.version, author |-> template.author,
                tags |-> template.tags, addedAt |-> now])]

\* addToRegistry: this.registry afterwards; it is saved only when it changed
addToRegistry(reg, template, now) ==
  IF Indexed(reg, template.name) THEN reg
  ELSE [reg EXCEPT !.templates =
          Append(@, [name |-> template.name, description |-> template.description,
                     version |-> template.version, author |-> template.author,
                     tags |-> template.tags, addedAt |-> now])]

\* importFromGitHub(repoUrl) at time now
importFromGitHub(files, reg, repoUrl, now) ==
  LET match == MatchGitHub(repoUrl)
  IN  IF ~match.matched
      THEN [threw |-> TRUE, message |-> "Invalid GitHub URL", files |-> files,
            registry |-> reg, writes |-> <<>>]
      ELSE
        LET template == Placeholder(repoUrl, match.owner, match.repo)
            templateDir == pathJoin(TemplatesDir, template.name)
            descriptor == templateDir \o <<"template.json">>
            stored == (descriptor :> JsonNode(template)) @@ ensureDir(files, templateDir)
            after == addToRegistry(reg, template, now)
        IN  [threw |-> FALSE, template |-> template, registry |-> after,
             files |-> IF after = reg THEN stored
                       ELSE (RegistryFile :> JsonNode(after)) @@ stored,
             writes |-> <<[op |-> "writeJson", path |-> descriptor]>>
                          \o (IF after = reg THEN <<>>
                              ELSE <<[op |-> "writeJson", path |-> RegistryFile]>>)]

(***************************************************************************)
(* Imports, up to MaxImports of them, into an installation whose registry  *)
(* is new or already indexes one template                                  *)
(***************************************************************************)
MaxImports == 3

ImportUrls ==
  {"https://github.com/acme/react-template",
   "https://github.com/other/react",
   "https://github.com/acme/vue/tree/main",
   "github.com/acme",
   "https://gitlab.com/acme/react",
   "https://github.com//react",
   "https://github.com/acme/",
   "https://github.com/acme/-template",
   "https://github.com/acme/.."}

VueEntry ==
  [name |-> "vue", description |-> "Template from first/vue", version |-> "1.0.0",
   author |-> "first", tags |-> <<"external", "github">>, addedAt |-> 0]

Registries ==
  {DefaultRegistry, [DefaultRegistry EXCEPT !.templates = <<VueEntry>>]}

Installed(reg) == (RegistryFile :> JsonNode(reg)) @@ ensureDir(EmptyFs, TemplatesDir)

InitImport ==
  /\ registry \in Registries
  /\ fs = Installed(registry)
  /\ store = <<>>
  /\ loaded = NotLoaded
  /\ report = NoReport
  /\ found = NotSearched
  /\ IdleQuality
  /\ IdleRating
  /\ written = <<>>
  /\ projOut = NoOutcome
  /\ clock = 0

\* import <url>: the action catches the error and prints it
ImportCommand ==
  /\ clock < MaxImports
  /\ \E url \in ImportUrls :
       LET done == importFromGitHub(fs, registry, url, clock + 1)
       IN  /\ fs' = done.files
           /\ registry' = done.registry
           /\ written' = done.writes
           /\ projOut' = IF done.threw
                         THEN [command |-> "import", url |-> url, threw |-> TRUE,
                               message |-> done.message]
                         ELSE [command |-> "import", url |-> url, threw |-> FALSE,
                               template |-> done.template]
  /\ clock' = clock + 1
  /\ UNCHANGED <<store, loaded, report, found, qualityVars, ratingVars>>

NextImport == ImportCommand

SpecImport == InitImport /\ [][NextImport]_vars

(***************************************************************************)
(* Claims about the import                                                 *)
(***************************************************************************)
\* the identifier has an owner and a repo: "github.com/", a run without "/",
\* a "/", and one more character that is not "/"
Parseable(url) ==
  \E i, j \in 1..Len(url) :
    /\ i + Len(GitHubHost) < j
    /\ j < Len(url)
    /\ SubSeq(url, i, i + Len(GitHubHost) - 1) = GitHubHost
    /\ \A k \in (i + Len(GitHubHost))..(j - 1) : CharAt(url, k) # "/"
    /\ CharAt(url, j) = "/"
    /\ CharAt(url, j + 1) # "/"

\* the descriptors of the store: templates/<subdirectory>/template.json
StoreDescriptorsOf(files) ==
  {p \in DOMAIN files :
     /\ Len(p) = Len(TemplatesDir) + 2
     /\ SubSeq(p, 1, Len(TemplatesDir)) = TemplatesDir
     /\ p[Len(p)] = "template.json"
     /\ files[p].kind = "json"}

IndexNames(reg) == {reg.templates[i].name : i \in 1..Len(reg.templates)}

ImportStep ==
  IF ~Parseable(projOut'.url)
  THEN /\ projOut'.threw
       /\ fs' = fs
       /\ registry' = registry
  ELSE /\ ~projOut'.threw
       /\ projOut'.template.tags = <<"external", "github">>
       /\ projOut'.template.version = "1.0.0"
       /\ Has(projOut'.template, "rules")
       /\ \E p \in StoreDescriptorsOf(fs') : fs'[p].doc = projOut'.template
       /\ projOut'.template.name \in IndexNames(registry')
       /\ fs'[RegistryFile].doc = registry'

\* C25: an import whose identifier has no owner and repo fails and persists
\* nothing; any other import persists the placeholder (tags external and
\* github, version 1.0.0, rules) as a descriptor of the store and the
\* registry index names it
C25_ImportPersistsOrFails == [][ImportStep]_vars

Imported == projOut.command = "import" /\ ~projOut.threw

\* C28: every template an import persists is valid: a non-empty name and
\* description, a version of three numbers, a rules object, and no error
\* from validateTemplate
C28_ImportedTemplateIsValid ==
  Imported =>
    /\ Present(projOut.template, "name")
    /\ Present(projOut.template, "description")
    /\ SemverTriple(projOut.template.version)
    /\ Present(projOut.template, "rules")
    /\ validateTemplate([dir |-> projOut.template.name, json |-> projOut.template]).errors = <<>>

ReimportStep ==
  /\ \A i, j \in 1..Len(registry'.templates) :
       registry'.templates[i].name = registry'.templates[j].name => i = j
  /\ (~projOut'.threw /\ projOut'.template.name \in IndexNames(registry)) =>
       (registry' = registry /\ fs'[RegistryFile] = fs[RegistryFile])

\* C29: the index never holds two entries of one name, and an import whose
\* derived name is already indexed leaves the index as it was, addedAt
\* included
C29_OneEntryPerName == [][ReimportStep]_vars

\* react was imported from acme at time 1 and again from another owner at
\* time 2: one entry, still acme's
C29_Witness ==
  /\ Imported
  /\ clock = 2
  /\ projOut.template.name = "react"
  /\ projOut.template.author = "other"
  /\ \E i \in 1..Len(registry.templates) :
       /\ registry.templates[i].name = "react"
       /\ registry.templates[i].author = "acme"
       /\ registry.templates[i].addedAt = 1

(***************************************************************************)
(* Claims about a failed update                                            *)
(***************************************************************************)
\* path.join(__dirname, '..', 'logs', 'errors.json')
ErrorLogPath == InstallRoot \o <<"logs", "errors.json">>

\* an update that went on to copy and write, and one of those calls threw
UpdateFailedPartWay ==
  /\ projOut.command = "update"
  /\ projOut.status = "failed"
  /\ Has(projOut, "latest")

\* C26: an applied update that fails part-way is reported by handleError
\* with the operation 'update' and the template's name as context, and an
\* entry for it is appended to the error log; no other error replaces it
C26_UpdateFailureReported ==
  UpdateFailedPartWay =>
    /\ projOut.handler = "handleError"
    /\ ErrorLogPath \in DOMAIN fs
    /\ LET errors == fs[ErrorLogPath].doc
       IN  /\ Len(errors) > 0
           /\ errors[Len(errors)].command = "update"
           /\ errors[Len(errors)].context.template = fs[pathResolve(MarkerName)].doc.template

(***************************************************************************)
(* init and update with templates whose files entries name paths outside   *)
(* the project, or the marker                                              *)
(***************************************************************************)
EscapeTpl ==
  [name |-> "escape", description |-> "Leaves the project", version |-> "1.0.0",
   files |-> <<[path |-> "../outside.txt", content |-> "X"],
               [path |-> ".cursorrules", content |-> "R"]>>]

AbsoluteTpl ==
  [name |-> "absolute", description |-> "An absolute path", version |-> "1.0.0",
   files |-> <<[path |-> "/etc/motd", content |-> "M"]>>]

MarkerTpl ==
  [name |-> "marker", description |-> "Declares the marker", version |-> "1.0.0",
   files |-> <<[path |-> MarkerName, content |-> "{}"],
               [path |-> ".cursorrules", content |-> "R"]>>]

ConfineTemplates == {NotesTpl, EscapeTpl, AbsoluteTpl, MarkerTpl}

\* the marker an earlier init of the template left in the working directory
EarlierMarker(template) ==
  [template |-> template.name, version |-> "0.0.1", installedAt |-> 0, projectName |-> "work"]

InitConfine ==
  /\ \E t \in ConfineTemplates :
       /\ store = <<[dir |-> "d1", json |-> t]>>
       /\ fs \in {EmptyFs, (pathResolve(MarkerName) :> JsonNode(EarlierMarker(t))) @@ EmptyFs}
  /\ loaded = NotLoaded
  /\ report = NoReport
  /\ found = NotSearched
  /\ registry = NoRegistry
  /\ IdleQuality
  /\ IdleRating
  /\ written = <<>>
  /\ projOut = NoOutcome
  /\ clock = 0

NextConfine == InitNamedCommand \/ InitAtPathCommand \/ UpdateCommand

SpecConfine == InitConfine /\ [][NextConfine]_vars

(***************************************************************************)
(* Claims about confinement                                                *)
(***************************************************************************)
\* the paths a step created or changed
Changed == {p \in DOMAIN fs' : p \notin DOMAIN fs \/ fs'[p] # fs[p]}

\* the tool's own data (analytics), and the directories above it
ToolData(p) ==
  \/ IsUnder(p, InstallRoot)
  \/ Len(p) <= Len(InstallRoot) /\ p = SubSeq(InstallRoot, 1, Len(p))

\* the project directory of the command: init's target, update's working
\* directory
TargetOf(outcome) == IF Has(outcome, "projectPath") THEN outcome.projectPath ELSE Cwd

IsMarker(node) == node.kind = "json" /\ Has(node.doc, "template")

ConfinedStep ==
  LET target == TargetOf(projOut')
      metadataPath == target \o <<MarkerName>>
  IN  /\ \A p \in Changed : p = target \/ IsUnder(p, target) \/ ToolData(p)
      /\ (metadataPath \in DOMAIN fs /\ IsMarker(fs[metadataPath])) =>
           IsMarker(fs'[metadataPath])
      /\ (Has(projOut', "status") /\ projOut'.status \in {"added", "updated"}) =>
           (metadataPath \in DOMAIN fs' /\ IsMarker(fs'[metadataPath]))

\* C30: for every template and files entry path, '..' segments included,
\* init and update create or modify files only inside the project
\* directory, and a files entry never replaces the project's marker
C30_WritesConfinedToTarget == [][ConfinedStep]_vars

============================================================================
